---- MODULE Spec2Model ----
(***************************************************************************)
(* react-canvas-masker: the history engine (useHistory), the paint /       *)
(* interaction controller and its notifications (useMaskEditor) and the    *)
(* pan / zoom mode state (useZoomPan).                                     *)
(*                                                                         *)
(* Execution model.  Everything runs on the browser's single UI thread.    *)
(* One TLA+ action is one task: a DOM event delivered to every listener    *)
(* registered for it, an imperative call of the editor's control surface,  *)
(* or one timer callback.  React state written during a task is committed  *)
(* and the hook re-rendered (effects included) before the next task runs,  *)
(* so handlers created by the render read the current state, while a       *)
(* callback put in a timer keeps the values of the render that made it.    *)
(***************************************************************************)
EXTENDS Integers, Sequences, FiniteSets, TLC

VARIABLES
    size,               \* useMaskEditor: { x, y } of the three canvases
    mask,               \* pixels of the mask canvas, row-major, 1..x*y
    isDrawing,          \* useMaskEditor: React state
    history,            \* useHistory: HistoryState[], { imageData, timestamp }
    historyIndex,       \* useHistory: cursor, -1 = nothing drawn
    scale,              \* useZoomPan: user zoom, in tenths
    transform,          \* useZoomPan: { scale (tenths), translateX, translateY (quarter px) }
    isPanning,          \* useZoomPan: React state
    isSpaceKeyDown,     \* useZoomPan: React state
    isZoomKeyDown,      \* useZoomPan: React state
    lastMousePosition,  \* useZoomPan: React state (client x)
    panningActive,      \* document.body carries the class 'panning-active'
    minScale,           \* option, in tenths
    maxScale,           \* option, in tenths
    onMaskChange,       \* option: an observer of the mask is supplied
    constrainPan,       \* option: setPan keeps the content within 75% of its size
    buttons,            \* mouse buttons physically held (MouseEvent.buttons)
    timers,             \* setTimeout(..., 0) callbacks not yet run, in order
    now,                \* Date.now(): ticks once per snapshot taken
    debounce,           \* simpleDebounce: payload of the pending timer
    lastPayload,        \* observer: last payload handed to onMaskChange
    owed,               \* observer: canvas pointer-ups minus their notifications
    debouncedInStroke,  \* observer: debounced deliveries since Drawing began
    stray,              \* observer: mask changed outside stroke, undo, redo, clear
    clearedAt,          \* observer: the clock when clear() last emptied the log
    ups,                \* observer: canvas pointer-ups so far
    upLimit,            \* bound on ups in this run
    nextId,             \* history driver: serial number of the next stroke
    saved,              \* history driver: snapshots committed since the log was empty
    script,             \* history driver: strokes / undos / redos played in that order
    probe               \* function bench: the inputs and results of one evaluation

paintVars == <<size, mask, isDrawing>>
histVars  == <<history, historyIndex>>
zoomVars  == <<scale, transform, isPanning, isSpaceKeyDown, isZoomKeyDown,
               lastMousePosition, panningActive, minScale, maxScale, onMaskChange, constrainPan>>
envVars   == <<buttons, timers, debounce, now>>
obsVars   == <<lastPayload, owed, debouncedInStroke, stray, clearedAt, ups,
               upLimit>>
drvVars   == <<nextId, saved, script, probe>>
vars == <<paintVars, histVars, zoomVars, envVars, obsVars, drvVars>>

----
(* Bounds *)

MaxUps == 3             \* canvas pointer-ups in one run
MaxUpsMode == 1         \* the same, in runs that also zoom and pan
MaxTimers == 2          \* pending timers when a zoom call adds one
MaxSaves == 52          \* strokes in runs of the history engine at full length
MaxStrokes == 4         \* strokes in runs of the history engine with redo invalidation

(* Program constants *)

maxHistorySize == 50

----
(* Values *)

\* MaskEditorDefaults, scales in tenths
MaskEditorDefaults ==
    [scale |-> 10, minScale |-> 8, maxScale |-> 40, constrainPan |-> TRUE]

Left == 0               \* MouseEvent.button
Middle == 1
Buttons == {Left, Middle}

Transparent == "transparent"    \* canvas after clearRect / resize
White == "#ffffff"              \* the erase colour
maskColor == "maskColor"        \* the configured brush colour
Colours == {Transparent, White, maskColor}

\* no payload (nothing delivered yet, no debounced call pending)
None == <<>>

Min(a, b) == IF a < b THEN a ELSE b
Max(a, b) == IF a > b THEN a ELSE b
Abs(a) == IF a < 0 THEN -a ELSE a

Area(sz) == sz.x * sz.y
Pixels(sz) == 1 .. Area(sz)

\* Array.prototype.slice(a, b) for 0 <= a <= b
Slice(s, a, b) == SubSeq(s, a + 1, Min(b, Len(s)))
\* Array.prototype.slice(-n) for n > 0
SliceLast(s, n) == IF Len(s) <= n THEN s ELSE SubSeq(s, Len(s) - n + 1, Len(s))

\* context.clearRect(0, 0, size.x, size.y)
clearRect(sz) == [p \in Pixels(sz) |-> Transparent]

\* beginPath(); fillStyle = c; arc(x, y, r, 0, 2*PI); fill()
fillArc(m, sz, p, r, c) ==
    [q \in Pixels(sz) |-> IF Abs(q - p) < r THEN c ELSE m[q]]

\* MouseEvent.buttons: 1 = left, 4 = middle
buttonsMask(bs) == (IF Left \in bs THEN 1 ELSE 0) + (IF Middle \in bs THEN 4 ELSE 0)

\* e.buttons > 1 || e.shiftKey ? '#ffffff' : maskColor
strokeColour(bs, shiftKey) ==
    IF buttonsMask(bs) > 1 \/ shiftKey THEN White ELSE maskColor

currentCursorSize == 1

----
(* utils (declared in dist/utils.d.ts) *)

\* toMask(canvas): lossless encoding of the canvas pixels
toMask(m) == <<"data:image/png", m>>

\* simpleDebounce(fn, wait): calling it replaces the pending timer
debouncedCall(pending, payload) == payload
\* simpleDebounce(fn, wait).cancel()
debouncedCancel(pending) == None

----
(* useHistory *)

saveToHistory_keepOldest(hi, h, idx, m, sz, ts) ==
    IF sz.x = 0 \/ sz.y = 0
    THEN [history |-> h, historyIndex |-> idx]
    ELSE LET newState == [imageData |-> m, timestamp |-> ts]
         IN [history |-> Slice(Append(Slice(h, 0, hi + 1), newState), 0,
                               maxHistorySize),
             historyIndex |-> Min(idx + 1, maxHistorySize - 1)]

saveToHistory_noTruncate(hi, h, idx, m, sz, ts) ==
    IF sz.x = 0 \/ sz.y = 0
    THEN [history |-> h, historyIndex |-> idx]
    ELSE LET newState == [imageData |-> m, timestamp |-> ts]
         IN [history |-> SliceLast(Append(h, newState), maxHistorySize),
             historyIndex |-> Min(idx + 1, maxHistorySize - 1)]

saveToHistory_unguarded(hi, h, idx, m, sz, ts) ==
    LET newState == [imageData |-> m, timestamp |-> ts]
    IN [history |-> SliceLast(Append(Slice(h, 0, hi + 1), newState),
                              maxHistorySize),
        historyIndex |-> Min(idx + 1, maxHistorySize - 1)]

saveToHistory(hi, h, idx, m, sz, ts) ==
    IF sz.x = 0 \/ sz.y = 0
    THEN [history |-> h, historyIndex |-> idx]
    ELSE LET newState == [imageData |-> m, timestamp |-> ts]
         IN [history |-> SliceLast(Append(Slice(h, 0, hi + 1), newState),
                                   maxHistorySize),
             historyIndex |-> Min(idx + 1, maxHistorySize - 1)]

\* saveToHistory() when context.getImageData throws: the catch clause
saveToHistoryThrows_cursorMoved(h, idx, sz) ==
    IF sz.x = 0 \/ sz.y = 0
    THEN [history |-> h, historyIndex |-> idx]
    ELSE [history |-> h, historyIndex |-> Min(idx + 1, maxHistorySize - 1)]

saveToHistoryThrows(h, idx, sz) ==
    IF sz.x = 0 \/ sz.y = 0
    THEN [history |-> h, historyIndex |-> idx]
    ELSE [history |-> h, historyIndex |-> idx]

restoreFromHistory_first(index, h, idx, m, sz) ==
    IF sz.x = 0 \/ sz.y = 0 THEN [mask |-> m, historyIndex |-> idx]
    ELSE IF index < -1 \/ index >= Len(h) THEN [mask |-> m, historyIndex |-> idx]
    ELSE IF index = -1
         THEN [mask |-> IF Len(h) > 0 THEN h[1].imageData ELSE clearRect(sz),
               historyIndex |-> -1]
    ELSE [mask |-> h[index + 1].imageData, historyIndex |-> index]

restoreFromHistory(index, h, idx, m, sz) ==
    IF sz.x = 0 \/ sz.y = 0 THEN [mask |-> m, historyIndex |-> idx]
    ELSE IF index < -1 \/ index >= Len(h) THEN [mask |-> m, historyIndex |-> idx]
    ELSE IF index = -1 THEN [mask |-> clearRect(sz), historyIndex |-> -1]
    ELSE [mask |-> h[index + 1].imageData, historyIndex |-> index]

History_undo_clamped(h, idx, m, sz) ==
    restoreFromHistory(Max(idx - 1, -1), h, idx, m, sz)

History_undo(h, idx, m, sz) == restoreFromHistory(idx - 1, h, idx, m, sz)

History_redo_short(h, idx, m, sz) ==
    IF idx + 2 < Len(h)
    THEN restoreFromHistory(idx + 1, h, idx, m, sz)
    ELSE [mask |-> m, historyIndex |-> idx]

History_redo(h, idx, m, sz) ==
    IF idx + 2 <= Len(h)
    THEN restoreFromHistory(idx + 1, h, idx, m, sz)
    ELSE [mask |-> m, historyIndex |-> idx]

History_clear_keepLog(h, idx, m, sz) ==
    IF sz.x = 0 \/ sz.y = 0
    THEN [mask |-> m, history |-> h, historyIndex |-> idx]
    ELSE [mask |-> clearRect(sz), history |-> h, historyIndex |-> -1]

History_clear(h, idx, m, sz) ==
    IF sz.x = 0 \/ sz.y = 0
    THEN [mask |-> m, history |-> h, historyIndex |-> idx]
    ELSE [mask |-> clearRect(sz), history |-> <<>>, historyIndex |-> -1]

----
(* useMaskEditor *)

\* if (onMaskChange && maskCanvasRef.current) onMaskChange(toMask(...)):
\* the payload the observer holds afterwards
onMaskChangeNow_skipped(previous, m) == previous

onMaskChangeNow(previous, m) == IF onMaskChange THEN toMask(m) ELSE previous

maskChangeEffect_noCancel(wasDrawing, drawing, pending, m) ==
    IF wasDrawing = drawing THEN pending
    ELSE IF drawing THEN debouncedCall(pending, toMask(m))
    ELSE pending

\* The effect on [isDrawing, ...]: its cleanup cancels the debounced call,
\* then, while drawing, the debounced call is made with the current mask.
maskChangeEffect(wasDrawing, drawing, pending, m) ==
    IF ~onMaskChange \/ wasDrawing = drawing THEN pending
    ELSE IF drawing THEN debouncedCall(debouncedCancel(pending), toMask(m))
    ELSE debouncedCancel(pending)

\* The pan listeners exist only in renders with transform.scale > 1
panListeners == transform.scale > 10

\* handleMouseDown of useMaskEditor: the stamp, or nothing when refused
handleMouseDown_mask(m, sz, p, bs, shiftKey) ==
    IF isPanning \/ isSpaceKeyDown THEN m
    ELSE fillArc(m, sz, p, currentCursorSize, strokeColour(bs, shiftKey))

handleMouseDown_isDrawing ==
    IF isPanning \/ isSpaceKeyDown THEN isDrawing ELSE TRUE

\* the mousemove listener of the cursor canvas
listener_mask(m, sz, p, bs, shiftKey) ==
    IF isPanning THEN m
    ELSE IF buttonsMask(bs) > 0 /\ ~isPanning /\ ~isSpaceKeyDown
         THEN fillArc(m, sz, p, currentCursorSize, strokeColour(bs, shiftKey))
         ELSE m

\* the callback handleMouseUp hands to setTimeout; wasDrawing records the mode
\* the pointer-up found and maskAtUp, in runs that follow the strokes (a bench
\* record is present), the mask it found; no task reads them
mouseUpTimer ==
    [kind |-> "mouseUp", historyIndex |-> historyIndex, size |-> size,
     wasDrawing |-> isDrawing,
     maskAtUp |-> IF probe = None THEN None ELSE mask]

----
(* useZoomPan *)

\* setPan(x, y) with constrainPan: at most 75% of the content size, quarter px
setPan_unconstrained(t, x, y, sz) == [t EXCEPT !.translateX = x, !.translateY = y]

setPan(t, x, y, sz) ==
    IF constrainPan
    THEN [t EXCEPT !.translateX = Max(Min(x, 3 * sz.x), -(3 * sz.x)),
                   !.translateY = Max(Min(y, 3 * sz.y), -(3 * sz.y))]
    ELSE [t EXCEPT !.translateX = x, !.translateY = y]

\* the effect "if (transform.scale <= 1) setPan(0, 0)"
resetPanEffect(t, sz) == IF t.scale <= 10 THEN setPan(t, 0, 0, sz) ELSE t

\* handleMouseDown of the pan effect: does this pointer-down start a pan
panStarts(b) == panListeners /\ (b = Middle \/ (b = Left /\ isSpaceKeyDown))

\* handleMouseMove of the pan effect
panMove(t, cx, sz) ==
    IF panListeners /\ isPanning
    THEN setPan(t, t.translateX + ((cx - lastMousePosition.x) * 40) \div t.scale,
                   t.translateY, sz)
    ELSE t

\* handleMouseUp / handleMouseLeave of the pan effect
panEnds == panListeners /\ isPanning

----
(* Initial state: the hook has mounted, no image has been decoded yet *)

InitState(lo, hi, limit, observer, constrain) ==
    /\ size = [x |-> 0, y |-> 0]
    /\ mask = clearRect(size)
    /\ isDrawing = FALSE
    /\ history = <<>>
    /\ historyIndex = -1
    /\ scale = MaskEditorDefaults.scale
    /\ transform = [scale |-> MaskEditorDefaults.scale, translateX |-> 0,
                    translateY |-> 0]
    /\ isPanning = FALSE
    /\ isSpaceKeyDown = FALSE
    /\ isZoomKeyDown = FALSE
    /\ lastMousePosition = [x |-> 0, y |-> 0]
    /\ panningActive = FALSE
    /\ minScale = lo
    /\ maxScale = hi
    /\ onMaskChange = observer
    /\ constrainPan = constrain
    /\ buttons = {}
    /\ timers = <<>>
    /\ debounce = None
    /\ now = 1
    /\ lastPayload = None
    /\ owed = 0
    /\ debouncedInStroke = 0
    /\ stray = FALSE
    /\ clearedAt = 0
    /\ ups = 0
    /\ upLimit = limit
    /\ nextId = 1
    /\ saved = <<>>
    /\ script = [s |-> 0, u |-> 0, r |-> 0]

InitEditor(lo, hi, limit, observer, constrain) ==
    /\ InitState(lo, hi, limit, observer, constrain)
    /\ probe = None

InitWith(lo, hi, limit, observer) ==
    InitEditor(lo, hi, limit, observer, MaskEditorDefaults.constrainPan)

Init == InitWith(MaskEditorDefaults.minScale, MaskEditorDefaults.maxScale, MaxUps,
                 TRUE)

----
(* Tasks *)

\* prepareAndApplyImage: the canvases get the image's size (which empties
\* them) and useZoomPan re-centres for the new content size.
\* the decoded images the editor is given
ImageSizes == {[x |-> 1, y |-> 1]}

ImageLoaded ==
    /\ size.x = 0
    /\ size' \in ImageSizes
    /\ mask' = clearRect(size')
    /\ transform' = [scale |-> 10, translateX |-> 0, translateY |-> 0]
    /\ stray' = (stray \/ lastPayload # None)
    /\ UNCHANGED <<isDrawing, histVars, scale, isPanning, isSpaceKeyDown,
                   isZoomKeyDown, lastMousePosition, panningActive, minScale,
                   maxScale, onMaskChange, constrainPan, envVars, lastPayload, owed,
                   debouncedInStroke, clearedAt, ups, upLimit, drvVars>>

ClientXs == {0, 3}

\* mousedown over the cursor canvas: the container's pan listener, then
\* handleMouseDown of useMaskEditor.
MouseDownCanvas(b, p, shiftKey, cx) ==
    /\ Area(size) > 0
    /\ b \notin buttons
    /\ buttons' = buttons \cup {b}
    /\ isPanning' = (isPanning \/ panStarts(b))
    /\ lastMousePosition' = IF panStarts(b) THEN [x |-> cx, y |-> 0]
                            ELSE lastMousePosition
    /\ panningActive' = (panningActive \/ panStarts(b))
    /\ mask' = handleMouseDown_mask(mask, size, p, buttons', shiftKey)
    /\ isDrawing' = handleMouseDown_isDrawing
    /\ debounce' = maskChangeEffect(isDrawing, isDrawing', debounce, mask')
    /\ debouncedInStroke' = IF ~isDrawing /\ isDrawing' THEN 0 ELSE debouncedInStroke
    /\ UNCHANGED <<size, histVars, scale, transform, isSpaceKeyDown,
                   isZoomKeyDown, minScale, maxScale, onMaskChange, constrainPan, timers, now,
                   lastPayload, owed, stray, clearedAt, ups, upLimit, drvVars>>

\* a button pressed while the pointer is outside the editor
MouseDownOutside(b) ==
    /\ b \notin buttons
    /\ buttons' = buttons \cup {b}
    /\ UNCHANGED <<paintVars, histVars, zoomVars, timers, debounce, now,
                   obsVars, drvVars>>

\* mousemove over the cursor canvas: its listener, then the window's pan listener
MouseMoveCanvas(p, shiftKey, cx) ==
    /\ Area(size) > 0
    /\ mask' = listener_mask(mask, size, p, buttons, shiftKey)
    /\ transform' = panMove(transform, cx, size)
    /\ lastMousePosition' = IF panListeners /\ isPanning THEN [x |-> cx, y |-> 0]
                            ELSE lastMousePosition
    /\ stray' = (stray \/ (onMaskChange /\ ~isDrawing /\ ~isPanning /\ ~isSpaceKeyDown
                              /\ buttonsMask(buttons) > 0))
    /\ \/ mask' # mask
       \/ transform' # transform
       \/ lastMousePosition' # lastMousePosition
    /\ UNCHANGED <<size, isDrawing, histVars, scale, isPanning, isSpaceKeyDown,
                   isZoomKeyDown, panningActive, minScale, maxScale, onMaskChange, constrainPan, envVars,
                   lastPayload, owed, debouncedInStroke, clearedAt, ups, upLimit, drvVars>>

\* mousemove outside the canvas: only the window's pan listener hears it
MouseMoveOutside(cx) ==
    /\ panListeners /\ isPanning
    /\ cx # lastMousePosition.x
    /\ transform' = panMove(transform, cx, size)
    /\ lastMousePosition' = [x |-> cx, y |-> 0]
    /\ UNCHANGED <<paintVars, histVars, scale, isPanning, isSpaceKeyDown,
                   isZoomKeyDown, panningActive, minScale, maxScale, onMaskChange, constrainPan, envVars,
                   obsVars, drvVars>>

\* mouseup over the cursor canvas: handleMouseUp of useMaskEditor, then the
\* window's pan listener.
MouseUpCanvas(b) ==
    /\ Area(size) > 0
    /\ b \in buttons
    /\ ups < upLimit
    /\ ups' = ups + 1
    /\ buttons' = buttons \ {b}
    /\ isDrawing' = FALSE
    /\ timers' = Append(timers, mouseUpTimer)
    /\ owed' = IF onMaskChange THEN owed + 1 ELSE owed
    /\ debounce' = maskChangeEffect(isDrawing, isDrawing', debounce, mask)
    /\ isPanning' = (isPanning /\ ~panEnds)
    /\ panningActive' = (panningActive /\ ~panEnds)
    /\ UNCHANGED <<size, mask, histVars, scale, transform, isSpaceKeyDown,
                   isZoomKeyDown, lastMousePosition, minScale, maxScale, onMaskChange, constrainPan,
                   now, lastPayload, debouncedInStroke, stray, clearedAt,
                   upLimit, drvVars>>

\* mouseup outside the canvas: only the window's pan listener hears it
MouseUpOutside(b) ==
    /\ b \in buttons
    /\ buttons' = buttons \ {b}
    /\ isPanning' = (isPanning /\ ~panEnds)
    /\ panningActive' = (panningActive /\ ~panEnds)
    /\ UNCHANGED <<paintVars, histVars, scale, transform, isSpaceKeyDown,
                   isZoomKeyDown, lastMousePosition, minScale, maxScale, onMaskChange, constrainPan,
                   timers, debounce, now, obsVars, drvVars>>

\* the timer of handleMouseUp: saveToHistory of the render that made it,
\* then onMaskChange(toMask(maskCanvas))
RunMouseUpTimer ==
    /\ timers # <<>>
    /\ Head(timers).kind = "mouseUp"
    /\ LET t == Head(timers)
           r == saveToHistory(t.historyIndex, history, historyIndex, mask,
                              t.size, now)
       IN /\ history' = r.history
          /\ historyIndex' = r.historyIndex
          /\ now' = IF Area(t.size) > 0 THEN now + 1 ELSE now
    /\ timers' = Tail(timers)
    /\ lastPayload' = onMaskChangeNow(lastPayload, mask)
    /\ owed' = IF onMaskChange THEN owed - 1 ELSE owed
    /\ UNCHANGED <<paintVars, zoomVars, buttons, debounce, debouncedInStroke,
                   stray, clearedAt, ups, upLimit, drvVars>>

\* the pending timer of simpleDebounce fires: onMaskChange(payload)
DebounceFires ==
    /\ debounce # None
    /\ lastPayload' = debounce
    /\ debouncedInStroke' = debouncedInStroke + 1
    /\ debounce' = None
    /\ UNCHANGED <<paintVars, histVars, zoomVars, buttons, timers, now, owed,
                   stray, clearedAt, ups, upLimit, drvVars>>

\* undo() of useMaskEditor: historyManager.undo(), then onMaskChange
undoCall ==
    /\ LET r == History_undo(history, historyIndex, mask, size)
       IN /\ mask' = r.mask
          /\ historyIndex' = r.historyIndex
    /\ lastPayload' = onMaskChangeNow(lastPayload, mask')

\* undo() called through the editor's control surface
undo ==
    /\ undoCall
    /\ UNCHANGED <<size, isDrawing, history, zoomVars, envVars, owed,
                   debouncedInStroke, stray, clearedAt, ups, upLimit, drvVars>>

\* redo() of useMaskEditor: historyManager.redo(), then onMaskChange
redoCall ==
    /\ LET r == History_redo(history, historyIndex, mask, size)
       IN /\ mask' = r.mask
          /\ historyIndex' = r.historyIndex
    /\ lastPayload' = onMaskChangeNow(lastPayload, mask')

\* redo() called through the editor's control surface
redo ==
    /\ redoCall
    /\ UNCHANGED <<size, isDrawing, history, zoomVars, envVars, owed,
                   debouncedInStroke, stray, clearedAt, ups, upLimit, drvVars>>

\* clear() of useMaskEditor: historyManager.clear(), then onMaskChange
clear_resetsZoom ==
    /\ LET r == History_clear(history, historyIndex, mask, size)
       IN /\ mask' = r.mask
          /\ history' = r.history
          /\ historyIndex' = r.historyIndex
    /\ lastPayload' = onMaskChangeNow(lastPayload, mask')
    /\ clearedAt' = IF Area(size) > 0 THEN now ELSE clearedAt
    /\ scale' = 10
    /\ transform' = [scale |-> 10, translateX |-> 0, translateY |-> 0]
    /\ UNCHANGED <<size, isDrawing, isPanning, isSpaceKeyDown, isZoomKeyDown,
                   lastMousePosition, panningActive, minScale, maxScale,
                   onMaskChange, constrainPan, envVars, owed,
                   debouncedInStroke, stray, ups, upLimit, drvVars>>

clear ==
    /\ LET r == History_clear(history, historyIndex, mask, size)
       IN /\ mask' = r.mask
          /\ history' = r.history
          /\ historyIndex' = r.historyIndex
    /\ lastPayload' = onMaskChangeNow(lastPayload, mask')
    /\ clearedAt' = IF Area(size) > 0 THEN now ELSE clearedAt
    /\ UNCHANGED <<size, isDrawing, zoomVars, envVars, owed,
                   debouncedInStroke, stray, ups, upLimit, drvVars>>

\* the new scale of zoomIn() / zoomOut(), in tenths
zoomInScale_tenth(currentScale) == Min(maxScale, currentScale + 1)

zoomInScale(currentScale) == Min(maxScale, currentScale + 2)

zoomOutScale(currentScale) == Max(minScale, currentScale - 2)

\* zoomIn(): the scale state now, transform.scale in a timer
zoomIn ==
    /\ Len(timers) < MaxTimers
    /\ LET newScale == zoomInScale(scale)
       IN /\ newScale # scale
          /\ scale' = newScale
          /\ timers' = Append(timers, [kind |-> "zoom", newScale |-> newScale])
    /\ UNCHANGED <<paintVars, histVars, transform, isPanning, isSpaceKeyDown,
                   isZoomKeyDown, lastMousePosition, panningActive, minScale,
                   maxScale, onMaskChange, constrainPan, buttons, debounce, now, obsVars, drvVars>>

\* zoomOut()
zoomOut ==
    /\ Len(timers) < MaxTimers
    /\ LET newScale == zoomOutScale(scale)
       IN /\ newScale # scale
          /\ scale' = newScale
          /\ timers' = Append(timers, [kind |-> "zoom", newScale |-> newScale])
    /\ UNCHANGED <<paintVars, histVars, transform, isPanning, isSpaceKeyDown,
                   isZoomKeyDown, lastMousePosition, panningActive, minScale,
                   maxScale, onMaskChange, constrainPan, buttons, debounce, now, obsVars, drvVars>>

\* setScale(s): the state setter of `scale`, handed out as it is
setScale(s) ==
    /\ s # scale
    /\ scale' = s
    /\ UNCHANGED <<paintVars, histVars, transform, isPanning, isSpaceKeyDown,
                   isZoomKeyDown, lastMousePosition, panningActive, minScale,
                   maxScale, onMaskChange, constrainPan, envVars, obsVars, drvVars>>

\* resetZoom(): scale 1, centred; its timer only notifies
resetZoom_keepPan ==
    /\ scale' = 10
    /\ transform' = [transform EXCEPT !.scale = 10]
    /\ <<scale', transform'>> # <<scale, transform>>
    /\ UNCHANGED <<paintVars, histVars, isPanning, isSpaceKeyDown,
                   isZoomKeyDown, lastMousePosition, panningActive, minScale,
                   maxScale, onMaskChange, constrainPan, envVars, obsVars, drvVars>>

resetZoom ==
    /\ scale' = 10
    /\ transform' = [scale |-> 10, translateX |-> 0, translateY |-> 0]
    /\ <<scale', transform'>> # <<scale, transform>>
    /\ UNCHANGED <<paintVars, histVars, isPanning, isSpaceKeyDown,
                   isZoomKeyDown, lastMousePosition, panningActive, minScale,
                   maxScale, onMaskChange, constrainPan, envVars, obsVars, drvVars>>

\* setPan(x, y) called through the editor's control surface, quarter px
SetPanCall(x, y) ==
    /\ transform' = setPan(transform, x, y, size)
    /\ transform' # transform
    /\ UNCHANGED <<paintVars, histVars, scale, isPanning, isSpaceKeyDown,
                   isZoomKeyDown, lastMousePosition, panningActive, minScale,
                   maxScale, onMaskChange, constrainPan, envVars, obsVars, drvVars>>

\* the ResizeObserver of the container: recalculateBaseScaleAndCenter
containerResized ==
    /\ Area(size) > 0
    /\ transform' = [scale |-> 10, translateX |-> 0, translateY |-> 0]
    /\ UNCHANGED <<paintVars, histVars, scale, isPanning, isSpaceKeyDown,
                   isZoomKeyDown, lastMousePosition, panningActive, minScale,
                   maxScale, onMaskChange, constrainPan, envVars, obsVars, drvVars>>

\* the timer of zoomIn / zoomOut: setTransform(prev => ({...prev, scale})),
\* then the render's effects
RunZoomTimer ==
    /\ timers # <<>>
    /\ Head(timers).kind = "zoom"
    /\ transform' = resetPanEffect([transform EXCEPT !.scale = Head(timers).newScale],
                                   size)
    /\ timers' = Tail(timers)
    /\ UNCHANGED <<paintVars, histVars, scale, isPanning, isSpaceKeyDown,
                   isZoomKeyDown, lastMousePosition, panningActive, minScale,
                   maxScale, onMaskChange, constrainPan, buttons, debounce, now, obsVars, drvVars>>

Codes == {"Space", "ControlLeft", "KeyZ", "KeyY"}

\* keydown on the window: handleKeyDown of useZoomPan and of useMaskEditor
KeyDown(code, ctrlKey, shiftKey) ==
    /\ code = "ControlLeft" => ctrlKey
    /\ isSpaceKeyDown' = (isSpaceKeyDown \/ (code = "Space" /\ transform.scale > 10))
    /\ isZoomKeyDown' = (isZoomKeyDown \/ ctrlKey)
    /\ IF ctrlKey /\ ~shiftKey /\ code = "KeyZ" THEN undoCall
       ELSE IF ctrlKey /\ (code = "KeyY" \/ (shiftKey /\ code = "KeyZ")) THEN redoCall
       ELSE UNCHANGED <<mask, historyIndex, lastPayload>>
    /\ UNCHANGED <<size, isDrawing, history, scale, transform, isPanning,
                   lastMousePosition, panningActive, minScale, maxScale, onMaskChange, constrainPan,
                   envVars, owed, debouncedInStroke, stray, clearedAt, ups,
                   upLimit, drvVars>>

\* keyup on the window: handleKeyUp of useZoomPan
KeyUp(code, ctrlKey) ==
    /\ code = "ControlLeft" => ~ctrlKey
    /\ isSpaceKeyDown' = (isSpaceKeyDown /\ code # "Space")
    /\ isPanning' = (isPanning /\ code # "Space")
    /\ isZoomKeyDown' = (isZoomKeyDown /\ ctrlKey)
    /\ UNCHANGED <<paintVars, histVars, scale, transform, lastMousePosition,
                   panningActive, minScale, maxScale, onMaskChange, constrainPan, envVars, obsVars, drvVars>>

\* blur of the window
handleBlur ==
    /\ isPanning' = FALSE
    /\ isSpaceKeyDown' = FALSE
    /\ isZoomKeyDown' = FALSE
    /\ UNCHANGED <<paintVars, histVars, scale, transform, lastMousePosition,
                   panningActive, minScale, maxScale, onMaskChange, constrainPan, envVars, obsVars, drvVars>>

\* mouseleave of the container: handleMouseLeave of the pan effect
handleMouseLeave ==
    /\ panEnds
    /\ isPanning' = FALSE
    /\ panningActive' = FALSE
    /\ UNCHANGED <<paintVars, histVars, scale, transform, isSpaceKeyDown,
                   isZoomKeyDown, lastMousePosition, minScale, maxScale, onMaskChange, constrainPan,
                   envVars, obsVars, drvVars>>

Next ==
    \/ ImageLoaded
    \/ \E b \in Buttons, p \in Pixels(size), k \in BOOLEAN, cx \in ClientXs :
          MouseDownCanvas(b, p, k, cx)
    \/ \E b \in Buttons : MouseDownOutside(b)
    \/ \E p \in Pixels(size), k \in BOOLEAN, cx \in ClientXs :
          MouseMoveCanvas(p, k, cx)
    \/ \E b \in Buttons : MouseUpCanvas(b)
    \/ \E b \in Buttons : MouseUpOutside(b)
    \/ RunMouseUpTimer
    \/ DebounceFires
    \/ undo
    \/ redo
    \/ clear

Spec == Init /\ [][Next]_vars

----
(* The history engine on its own: useHistory driven by a harness that calls
   the callbacks of the current render, one call per task. *)

DriverSize == [x |-> 6, y |-> 1]

\* the mask a stroke leaves: stroke n paints or erases every pixel so that
\* no two strokes leave the same content
StrokeContent(n) ==
    [q \in Pixels(DriverSize) |->
        IF (n \div (2 ^ (q - 1))) % 2 = 1 THEN maskColor ELSE White]

InitDriver ==
    /\ size = DriverSize
    /\ mask = clearRect(size)
    /\ isDrawing = FALSE
    /\ history = <<>>
    /\ historyIndex = -1
    /\ scale = MaskEditorDefaults.scale
    /\ transform = [scale |-> MaskEditorDefaults.scale, translateX |-> 0,
                    translateY |-> 0]
    /\ isPanning = FALSE
    /\ isSpaceKeyDown = FALSE
    /\ isZoomKeyDown = FALSE
    /\ lastMousePosition = [x |-> 0, y |-> 0]
    /\ panningActive = FALSE
    /\ minScale = MaskEditorDefaults.minScale
    /\ maxScale = MaskEditorDefaults.maxScale
    /\ onMaskChange = FALSE
    /\ constrainPan = MaskEditorDefaults.constrainPan
    /\ buttons = {}
    /\ timers = <<>>
    /\ debounce = None
    /\ now = 1
    /\ lastPayload = None
    /\ owed = 0
    /\ debouncedInStroke = 0
    /\ stray = FALSE
    /\ clearedAt = 0
    /\ ups = 0
    /\ upLimit = 0
    /\ nextId = 1
    /\ saved = <<>>
    /\ script = [s |-> 0, u |-> 0, r |-> 0]
    /\ probe = None

OffScript == [s |-> -1, u |-> 0, r |-> 0]

driverFrame == <<size, isDrawing, zoomVars, buttons, timers, debounce,
                 obsVars, probe>>

\* a stroke is painted and saveToHistory() of the current render is called
H_Commit ==
    /\ mask' = StrokeContent(nextId)
    /\ LET r == saveToHistory(historyIndex, history, historyIndex, mask', size, now)
       IN /\ history' = r.history
          /\ historyIndex' = r.historyIndex
    /\ saved' = Append(saved, [imageData |-> mask', timestamp |-> now])
    /\ now' = now + 1
    /\ nextId' = nextId + 1
    /\ script' = IF script.s >= 0 /\ script.u = 0 /\ script.r = 0
                 THEN [script EXCEPT !.s = @ + 1] ELSE OffScript
    /\ UNCHANGED driverFrame

\* strokes while nothing is undone, up to beyond the capacity of the log
H_StrokeAtTip ==
    /\ nextId <= MaxSaves
    /\ historyIndex = Len(history) - 1
    /\ H_Commit

\* strokes at any cursor position
H_Stroke ==
    /\ nextId <= MaxStrokes
    /\ H_Commit

H_Undo ==
    /\ LET r == History_undo(history, historyIndex, mask, size)
       IN /\ mask' = r.mask
          /\ historyIndex' = r.historyIndex
    /\ script' = IF script.s >= 0 /\ script.r = 0 /\ script.u < script.s
                 THEN [script EXCEPT !.u = @ + 1] ELSE OffScript
    /\ UNCHANGED <<history, now, nextId, saved, driverFrame>>

H_Redo ==
    /\ LET r == History_redo(history, historyIndex, mask, size)
       IN /\ mask' = r.mask
          /\ historyIndex' = r.historyIndex
    /\ script' = IF script.s > 0 /\ script.u = script.s /\ script.r < script.s
                 THEN [script EXCEPT !.r = @ + 1] ELSE OffScript
    /\ UNCHANGED <<history, now, nextId, saved, driverFrame>>

H_Clear ==
    /\ LET r == History_clear(history, historyIndex, mask, size)
       IN /\ mask' = r.mask
          /\ history' = r.history
          /\ historyIndex' = r.historyIndex
    /\ script' = [s |-> 0, u |-> 0, r |-> 0]
    /\ clearedAt' = now
    /\ UNCHANGED <<now, nextId, saved, probe, size, isDrawing, zoomVars, buttons,
                   timers, debounce, lastPayload, owed, debouncedInStroke,
                   stray, ups, upLimit>>

NextBound == H_StrokeAtTip \/ H_Undo \/ H_Redo

SpecBound == InitDriver /\ [][NextBound]_vars

NextHistory == H_Stroke \/ H_Undo \/ H_Redo \/ H_Clear

SpecHistory == InitDriver /\ [][NextHistory]_vars

----
(* C1: the log never holds more than 50 entries, and once more than 50
   snapshots have been saved one after another the log holds exactly the 50
   most recent ones, oldest first. *)
C1_HistoryBound ==
    /\ Len(history) <= maxHistorySize
    /\ Len(saved) > maxHistorySize => history = SliceLast(saved, maxHistorySize)

\* 52 snapshots saved: the first two have been evicted
C1_Witness ==
    /\ Len(saved) = maxHistorySize + 2
    /\ Len(history) = maxHistorySize
    /\ history[1].timestamp = 3
    /\ historyIndex = maxHistorySize - 1

(* C3: saveToHistory() called while the cursor is before the last entry
   discards every entry after the cursor, appends the snapshot and puts the
   cursor on it, so that redo() is then a no-op (draw A, draw B, undo, draw C
   leaves exactly [A, C]). *)
C3_RedoInvalidation ==
    [][ (H_Stroke /\ historyIndex < Len(history) - 1) =>
          /\ history' = Append(SubSeq(history, 1, historyIndex + 1),
                               [imageData |-> mask', timestamp |-> now])
          /\ historyIndex' = Len(history') - 1
          /\ History_redo(history', historyIndex', mask', size)
               = [mask |-> mask', historyIndex |-> historyIndex'] ]_vars

\* draw A, draw B, undo, draw C: the log is [A, C] with the cursor on C
C3_Witness ==
    /\ Len(history) = 2
    /\ history[1].timestamp = 1
    /\ history[2].timestamp = 3
    /\ historyIndex = 1
    /\ mask = history[2].imageData

(* C4: n <= 50 strokes committed from an empty log, then n undo() and n
   redo(), leave the mask exactly as the last stroke left it and the cursor
   at n - 1. *)
C4_UndoRedoSymmetry ==
    (/\ script.s >= 1
     /\ script.s <= maxHistorySize
     /\ script.u = script.s
     /\ script.r = script.s)
    => /\ mask = saved[Len(saved)].imageData
       /\ historyIndex = script.s - 1

\* 50 strokes, 50 undos, 50 redos
C4_Witness ==
    /\ script = [s |-> maxHistorySize, u |-> maxHistorySize, r |-> maxHistorySize]
    /\ mask = StrokeContent(maxHistorySize)

----
(* C2: in every reachable state the history cursor lies in
   [-1, entries.length - 1], whatever the interleaving of the deferred
   pointer-up commits with undo, redo and clear. *)
C2_CursorInRange ==
    /\ -1 <= historyIndex
    /\ historyIndex <= Len(history) - 1

(* C5: an undo() or redo() that moves the cursor leaves on the mask surface
   entries[cursor].snapshot, or the fully cleared buffer when the cursor
   becomes -1 (so a click-stroke followed by undo() clears the stamp). *)
C5_RestoreShowsCursorEntry ==
    [][ ((undo \/ redo) /\ historyIndex' # historyIndex) =>
          mask' = IF historyIndex' = -1 THEN clearRect(size)
                  ELSE history[historyIndex' + 1].imageData ]_vars

\* one committed click-stroke, then undo(): nothing drawn, cursor -1
C5_Witness ==
    /\ Len(history) = 1
    /\ historyIndex = -1
    /\ history[1].imageData # clearRect(size)
    /\ mask = clearRect(size)

(* C6: undo() at cursor -1 and redo() at cursor entries.length - 1 leave the
   log entries, the cursor and the mask pixels unchanged. *)
C6_NoOpAtEnds ==
    [][ /\ (undo /\ historyIndex = -1) => UNCHANGED <<history, historyIndex, mask>>
        /\ (redo /\ historyIndex = Len(history) - 1)
              => UNCHANGED <<history, historyIndex, mask>> ]_vars

\* a painted, not yet committed stroke; undo()/redo() ran (its notification
\* is the only one that can carry the painted mask here) and changed nothing
C6_Witness ==
    /\ history = <<>>
    /\ historyIndex = -1
    /\ ups = 0
    /\ debounce # None
    /\ mask # clearRect(size)
    /\ lastPayload = toMask(mask)

(* C7: clear() on a surface with area empties the mask, resets the log to no
   entries and the cursor to -1; no entry taken before the clear is in the
   log afterwards, and undo()/redo() only ever put a current log entry (or
   the empty buffer) on the surface. *)
C7_ClearResets ==
    [][ /\ (clear /\ Area(size) > 0) =>
              /\ mask' = clearRect(size)
              /\ history' = <<>>
              /\ historyIndex' = -1
        /\ \A i \in 1 .. Len(history') : history'[i].timestamp >= clearedAt'
        /\ (undo \/ redo) =>
              \/ mask' = mask
              \/ mask' = clearRect(size)
              \/ \E i \in 1 .. Len(history) : mask' = history[i].imageData ]_vars

\* clear() ran after at least one snapshot had been taken
C7_Witness ==
    /\ clearedAt > 1
    /\ history = <<>>
    /\ historyIndex = -1
    /\ mask = clearRect(size)
    /\ lastPayload = toMask(mask)

\* pending timers made by handleMouseUp
MouseUpTimers == Len(SelectSeq(timers, LAMBDA t : t.kind = "mouseUp"))

(* C8: during one stroke at most one debounced onMaskChange call is made,
   and every pointer-up causes exactly one onMaskChange call of its own: no
   debounced call is left to fire once the stroke has ended. *)
C8_DebouncedOncePlusOne ==
    /\ debouncedInStroke <= 1
    /\ owed = MouseUpTimers
    /\ ~isDrawing => debounce = None

\* the debounce timer fired during the stroke and the pointer-up has notified
C8_Witness ==
    /\ debouncedInStroke = 1
    /\ ~isDrawing
    /\ ups = 1
    /\ owed = 0
    /\ timers = <<>>
    /\ lastPayload = toMask(mask)

(* C9: after strokes, undo, redo and clear on the surface, once no timer is
   pending and no stroke is in progress, the last payload handed to
   onMaskChange is the current mask content. *)
C9_ObserverInSync ==
    (/\ timers = <<>>
     /\ debounce = None
     /\ ~isDrawing
     /\ ~stray
     /\ Area(size) > 0)
    => IF lastPayload = None THEN mask = clearRect(size)
       ELSE lastPayload = toMask(mask)

\* a stroke whose debounced payload was delivered first, then committed, then undone
C9_Witness ==
    /\ timers = <<>>
    /\ debounce = None
    /\ ~isDrawing
    /\ ~stray
    /\ debouncedInStroke = 1
    /\ Len(history) = 1
    /\ historyIndex = -1
    /\ lastPayload = toMask(mask)

----
(* Runs that also zoom, pan and use the keyboard; the editor is configured
   with minScale 1 and maxScale 1.2 and without an onMaskChange observer. *)

InitMode == InitWith(10, 12, MaxUpsMode, FALSE)

NextMode ==
    \/ ImageLoaded
    \/ \E b \in Buttons, p \in Pixels(size), k \in BOOLEAN, cx \in ClientXs :
          MouseDownCanvas(b, p, k, cx)
    \/ \E b \in Buttons : MouseDownOutside(b)
    \/ \E p \in Pixels(size), k \in BOOLEAN, cx \in ClientXs :
          MouseMoveCanvas(p, k, cx)
    \/ \E cx \in ClientXs : MouseMoveOutside(cx)
    \/ \E b \in Buttons : MouseUpCanvas(b)
    \/ \E b \in Buttons : MouseUpOutside(b)
    \/ RunMouseUpTimer
    \/ RunZoomTimer
    \/ clear
    \/ zoomIn
    \/ zoomOut
    \/ \E c \in Codes, k \in BOOLEAN, sh \in BOOLEAN : KeyDown(c, k, sh)
    \/ \E c \in Codes, k \in BOOLEAN : KeyUp(c, k)
    \/ handleBlur
    \/ handleMouseLeave

SpecMode == InitMode /\ [][NextMode]_vars

(* C10: the interaction mode is one of Idle, Drawing, Panning: isDrawing and
   isPanning are never both true. *)
C10_ModeExclusive == ~(isDrawing /\ isPanning)

\* a left-button pointer-down over the canvas
LeftDownOnCanvas ==
    \E p \in Pixels(size), k \in BOOLEAN, cx \in ClientXs :
        MouseDownCanvas(Left, p, k, cx)

\* a pointer-move, over the canvas or outside it
PointerMove ==
    \/ \E p \in Pixels(size), k \in BOOLEAN, cx \in ClientXs : MouseMoveCanvas(p, k, cx)
    \/ \E cx \in ClientXs : MouseMoveOutside(cx)

\* the Space key goes down
SpaceDown == \E k \in BOOLEAN, sh \in BOOLEAN : KeyDown("Space", k, sh)

(* C11: with an image loaded and no deferred task pending, at a scale above 1
   a Space key-down makes space held, and a left-button pointer-down from
   Idle while space is held puts the mode in Panning, not Drawing, and paints
   nothing; every pointer-move while the mode is Panning leaves the mask
   pixels unchanged. *)
C11_SpacePanNoPaint ==
    [][ /\ (SpaceDown /\ scale > 10 /\ Area(size) > 0 /\ timers = <<>>)
              => isSpaceKeyDown'
        /\ (LeftDownOnCanvas /\ isSpaceKeyDown /\ scale > 10 /\ timers = <<>>
               /\ ~isDrawing /\ ~isPanning)
              => (isPanning' /\ ~isDrawing' /\ mask' = mask)
        /\ (PointerMove /\ isPanning) => mask' = mask ]_vars

\* a pointer-down over the canvas, any button
PointerDownOnCanvas ==
    \E b \in Buttons, p \in Pixels(size), k \in BOOLEAN, cx \in ClientXs :
        MouseDownCanvas(b, p, k, cx)

(* C12: no pointer-down and no pointer-move writes a stamp to the mask while
   the zoom modifier is held (isZoomKeyDown), whatever buttons are pressed. *)
C12_NoPaintWhileZoomKey ==
    [][ ((PointerDownOnCanvas \/ PointerMove) /\ isZoomKeyDown)
           => mask' = mask ]_vars

----
(* The viewport on its own: the zoom and pan calls of the control surface
   and the image load (which recalculates the base scale and centres), for several configurations. *)

\* <<minScale, maxScale>> in tenths
ZoomConfigs == {<<8, 14>>, <<8, 13>>}

\* the scales asked for through setScale, in tenths
ScaleRequests == {6, 11, 16}

\* the coordinates asked for through setPan, in quarter px
PanRequests == {-8, 0, 2, 8}

InitZoom ==
    \E c \in ZoomConfigs, constrain \in BOOLEAN :
        InitEditor(c[1], c[2], 0, FALSE, constrain)

NextZoom ==
    \/ ImageLoaded
    \/ \E s \in ScaleRequests : setScale(s)
    \/ zoomIn
    \/ zoomOut
    \/ RunZoomTimer
    \/ resetZoom
    \/ \E x \in PanRequests, y \in PanRequests : SetPanCall(x, y)

SpecZoom == InitZoom /\ [][NextZoom]_vars

(* C13: in every reachable state minScale <= scale <= maxScale, whatever
   sequence of setScale, zoomIn, zoomOut, resetZoom and image-load events ran
   (a setScale request outside the bounds settles at the bound). *)
C13_ScaleInBounds == minScale <= scale /\ scale <= maxScale

\* how many zoomIn() calls in a row are followed
ZoomSteps == 4

RECURSIVE zoomInTimes(_, _)
\* the scale after k zoomIn() calls in a row
zoomInTimes(s, k) == IF k = 0 THEN s ELSE zoomInTimes(zoomInScale(s), k - 1)

(* C14: zoomIn() sets scale to min(maxScale, scale + 0.2) and zoomOut() to
   max(minScale, scale - 0.2); from any scale in bounds finitely many
   zoomIn() calls reach exactly maxScale, and a further one leaves it. *)
C14_ZoomStep ==
    [][ /\ zoomIn => scale' = Min(maxScale, scale + 2)
        /\ zoomOut => scale' = Max(minScale, scale - 2)
        /\ (minScale <= scale /\ scale <= maxScale)
              => \E k \in 0..ZoomSteps :
                    /\ zoomInTimes(scale, k) = maxScale
                    /\ zoomInTimes(scale, k + 1) = maxScale ]_vars

\* zoomIn() calls ended on a clamped last step, the transform caught up
C14_Witness ==
    /\ maxScale = 13
    /\ scale = maxScale
    /\ transform.scale = maxScale
    /\ timers = <<>>

(* C15: zoomIn() and zoomOut() change the zoom by 0.1 (one tenth) per call,
   within the bounds, as the README documents. *)
C15_ZoomStepTenth ==
    [][ /\ zoomIn => scale' = Min(maxScale, scale + 1)
        /\ zoomOut => scale' = Max(minScale, scale - 1) ]_vars

\* clamp(v, lo, hi) as the specification writes it
Clamp(v, lo, hi) == IF v < lo THEN lo ELSE IF v > hi THEN hi ELSE v

(* C18: after setPan(x, y) on content of size W x H the stored translate is
   (clamp(x, -0.75 W, 0.75 W), clamp(y, -0.75 H, 0.75 H)) with constrainPan
   and exactly (x, y) without it; the scale is unchanged either way. *)
C18_SetPanClamp ==
    [][ \A x \in PanRequests, y \in PanRequests :
          SetPanCall(x, y) =>
            /\ scale' = scale
            /\ transform'.scale = transform.scale
            /\ transform'.translateX =
                 IF constrainPan THEN Clamp(x, -(3 * size.x), 3 * size.x) ELSE x
            /\ transform'.translateY =
                 IF constrainPan THEN Clamp(y, -(3 * size.y), 3 * size.y) ELSE y
      ]_vars

\* a request of (2 W, -2 H) was cut to (0.75 W, -0.75 H)
C18_Witness ==
    /\ constrainPan
    /\ size.x > 0
    /\ transform.translateX = 3 * size.x
    /\ transform.translateY = -(3 * size.y)

(* C19: resetZoom() called in any state sets scale to 1, transform.scale to 1
   and the translate to (0, 0). *)
C19_ResetZoom ==
    [][ resetZoom =>
          /\ scale' = 10
          /\ transform' = [scale |-> 10, translateX |-> 0, translateY |-> 0]
      ]_vars

\* resetZoom() ran after two zoomIn() calls whose timers are still pending
C19_Witness ==
    /\ scale = 10
    /\ transform = [scale |-> 10, translateX |-> 0, translateY |-> 0]
    /\ Len(timers) = 2
    /\ \A i \in 1..2 : timers[i].kind = "zoom" /\ timers[i].newScale > 10

----
(* Coordinates.  JavaScript numbers are modelled as exact fractions
   <<numerator, denominator>> in lowest terms with a positive denominator. *)

RECURSIVE GCD(_, _)
GCD(a, b) == IF b = 0 THEN a ELSE GCD(b, a % b)

Rat(n, d) ==
    LET g == GCD(Abs(n), Abs(d))
        sgn == IF d < 0 THEN -1 ELSE 1
    IN  <<(sgn * n) \div g, (sgn * d) \div g>>

RInt(i) == <<i, 1>>
RAdd(a, b) == Rat(a[1] * b[2] + b[1] * a[2], a[2] * b[2])
RSub(a, b) == Rat(a[1] * b[2] - b[1] * a[2], a[2] * b[2])
RMul(a, b) == Rat(a[1] * b[1], a[2] * b[2])
RDiv(a, b) == Rat(a[1] * b[2], a[2] * b[1])
RNeg(a) == <<-a[1], a[2]>>
RLeq(a, b) == a[1] * b[2] <= b[1] * a[2]
RHalf(a) == RDiv(a, RInt(2))

\* getImageCoordinates(clientX, clientY) for the transform t, the base scale,
\* the content size and the container's bounding rectangle
getImageCoordinates(t, baseScale, contentSize, rect, clientX, clientY) ==
    LET offsetX == RSub(clientX, rect.left)
        offsetY == RSub(clientY, rect.top)
        combinedScale == RMul(t.scale, baseScale)
        fromCenterX == RSub(offsetX, RHalf(rect.width))
        fromCenterY == RSub(offsetY, RHalf(rect.height))
        withoutUserTranslateX == RSub(fromCenterX, RMul(t.translateX, combinedScale))
        withoutUserTranslateY == RSub(fromCenterY, RMul(t.translateY, combinedScale))
        inOriginalSpaceX == RDiv(withoutUserTranslateX, combinedScale)
        inOriginalSpaceY == RDiv(withoutUserTranslateY, combinedScale)
    IN  [x |-> RAdd(inOriginalSpaceX, RHalf(contentSize.x)),
         y |-> RAdd(inOriginalSpaceY, RHalf(contentSize.y))]

\* where the style "top 50%, left 50%, translate(-50%, -50%)
\* scale(effectiveScale) translate(translateX, translateY)", origin centre,
\* puts the point p of the content: client coordinates
transformStyle(effectiveScale, t, contentSize, rect, p) ==
    LET centreX == RAdd(rect.left, RHalf(rect.width))
        centreY == RAdd(rect.top, RHalf(rect.height))
        localX == RAdd(RSub(p.x, RHalf(contentSize.x)), t.translateX)
        localY == RAdd(RSub(p.y, RHalf(contentSize.y)), t.translateY)
    IN  [x |-> RAdd(centreX, RMul(effectiveScale, localX)),
         y |-> RAdd(centreY, RMul(effectiveScale, localY))]

\* the container's bounding rectangle, px
containerRect ==
    [left |-> RInt(0), top |-> RInt(0), width |-> RInt(4), height |-> RInt(4)]

\* calculateBaseScale(): the content fitted into the container, never enlarged
calculateBaseScale(contentSize, rect) ==
    LET scaleX == RDiv(rect.width, contentSize.x)
        scaleY == RDiv(rect.height, contentSize.y)
        fit == IF RLeq(scaleX, scaleY) THEN scaleX ELSE scaleY
    IN  IF RLeq(fit, RInt(1)) THEN fit ELSE RInt(1)

\* the editor's state in the units of the code: scale 1 = <<1, 1>>, px
contentSizePx == [x |-> RInt(size.x), y |-> RInt(size.y)]
transformPx ==
    [scale |-> Rat(transform.scale, 10),
     translateX |-> Rat(transform.translateX, 4),
     translateY |-> Rat(transform.translateY, 4)]
baseScaleNow == calculateBaseScale(contentSizePx, containerRect)
effectiveScale == RMul(baseScaleNow, Rat(scale, 10))

\* client points inside the container
ClientPoints == {[x |-> RInt(cx), y |-> RInt(cy)] : cx \in {0, 3}, cy \in {1, 4}}

(* C17: in every transform state and for every client point inside the
   container, getImageCoordinates is the exact inverse of the rendering
   transform: the image point it returns, mapped forward through
   translate(centre) scale(effectiveScale) translate(translateX, translateY),
   is the client point again. *)
C17_CoordinateRoundTrip ==
    (Area(size) > 0 /\ timers = <<>>) =>
        \A c \in ClientPoints :
            transformStyle(effectiveScale, transformPx, contentSizePx, containerRect,
                getImageCoordinates(transformPx, baseScaleNow, contentSizePx,
                                    containerRect, c.x, c.y)) = c

----
(* The viewport in exact coordinates: modifier-wheel zoom about the pointer.
   A wheel zoom gives translates that are not multiples of a quarter pixel,
   so this viewport is kept as a record of fractions in the variable probe:
   [contentSize, baseScale, scale, transform, wheels]. *)

\* how many wheel events are followed
MaxWheels == 3

\* content sizes, px: one that fits the container and one that is fitted
ContentSizes == {[x |-> RInt(2), y |-> RInt(2)], [x |-> RInt(8), y |-> RInt(4)]}

\* deltaY of a wheel event
WheelDeltas == {-20, 20}

\* the effect "if (transform.scale <= 1) setPan(0, 0)" on exact coordinates
resetPanEffectPx(t) ==
    IF RLeq(t.scale, RInt(1))
    THEN [t EXCEPT !.translateX = RInt(0), !.translateY = RInt(0)]
    ELSE t

\* zoomToPoint(newScale, pointX, pointY): the viewport v after the call
zoomToPoint(v, newScale, pointX, pointY) ==
    LET rect == containerRect
        imagePointUnderCursor ==
            getImageCoordinates(v.transform, v.baseScale, v.contentSize, rect,
                                RAdd(rect.left, pointX), RAdd(rect.top, pointY))
        containerCenterX == RHalf(rect.width)
        containerCenterY == RHalf(rect.height)
        cursorOffsetX == RSub(pointX, containerCenterX)
        cursorOffsetY == RSub(pointY, containerCenterY)
        newCombinedScale == RMul(v.baseScale, newScale)
        finalOffsetX ==
            RSub(RMul(RSub(imagePointUnderCursor.x, RHalf(v.contentSize.x)),
                      newCombinedScale), cursorOffsetX)
        finalOffsetY ==
            RSub(RMul(RSub(imagePointUnderCursor.y, RHalf(v.contentSize.y)),
                      newCombinedScale), cursorOffsetY)
        newTranslateX == RDiv(RNeg(finalOffsetX), newCombinedScale)
        newTranslateY == RDiv(RNeg(finalOffsetY), newCombinedScale)
    IN  [v EXCEPT !.scale = newScale,
                  !.transform = [scale |-> newScale,
                                 translateX |-> newTranslateX,
                                 translateY |-> newTranslateY]]

\* the content size becomes known: recalculateBaseScaleAndCenter
recalculateBaseScaleAndCenter(contentSize) ==
    /\ probe = None
    /\ probe' = [contentSize |-> contentSize,
                 baseScale |-> calculateBaseScale(contentSize, containerRect),
                 scale |-> Rat(scale, 10),
                 transform |-> [scale |-> RInt(1), translateX |-> RInt(0),
                                translateY |-> RInt(0)],
                 wheels |-> 0]
    /\ UNCHANGED <<paintVars, histVars, zoomVars, envVars, obsVars, nextId,
                   saved, script>>

\* a wheel event over the container at (mouseX, mouseY) from its corner, and
\* the effects of the render that follows
handleWheel(ctrlKey, deltaY, mouseX, mouseY) ==
    /\ probe # None
    /\ probe.wheels < MaxWheels
    /\ ctrlKey
    /\ LET delta == RMul(RInt(-deltaY), Rat(1, 100))
           lo == Rat(minScale, 10)
           hi == Rat(maxScale, 10)
           sum == RAdd(probe.scale, delta)
           capped == IF RLeq(hi, sum) THEN hi ELSE sum
           newScale == IF RLeq(capped, lo) THEN lo ELSE capped
           zoomed == zoomToPoint(probe, newScale, mouseX, mouseY)
       IN  /\ newScale # probe.scale
           /\ probe' = [zoomed EXCEPT !.transform = resetPanEffectPx(zoomed.transform),
                                      !.wheels = probe.wheels + 1]
    /\ UNCHANGED <<paintVars, histVars, zoomVars, envVars, obsVars, nextId,
                   saved, script>>

InitAnchor == InitEditor(8, 14, 0, FALSE, MaskEditorDefaults.constrainPan)

NextAnchor ==
    \/ \E contentSize \in ContentSizes : recalculateBaseScaleAndCenter(contentSize)
    \/ \E k \in BOOLEAN, deltaY \in WheelDeltas, c \in ClientPoints :
          handleWheel(k, deltaY, c.x, c.y)

SpecAnchor == InitAnchor /\ [][NextAnchor]_vars

\* the image point under the client point c in the viewport v
imageUnder(v, c) ==
    getImageCoordinates(v.transform, v.baseScale, v.contentSize, containerRect,
                        RAdd(containerRect.left, c.x), RAdd(containerRect.top, c.y))

(* C16: for every pointer position P and every target scale in
   [minScale, maxScale], above 1 and at or below 1, once zoomToPoint(newScale, P)
   and the state updates it triggers have settled, getImageCoordinates(P) is the
   image point it was immediately before the zoom. *)
C16_PointerAnchoredZoom ==
    [][ \A k \in BOOLEAN, deltaY \in WheelDeltas, c \in ClientPoints :
          handleWheel(k, deltaY, c.x, c.y) =>
              imageUnder(probe', c) = imageUnder(probe, c) ]_vars

----
(* The size of the surface for a decoded image: the variable probe holds the
   image, the limits and the size that was set,
   [img, maxWidth, maxHeight, size]. *)

\* Math.round of a fraction that is not negative
MathRound(a) == (2 * a[1] + a[2]) \div (2 * a[2])

\* the size prepareAndApplyImage sets for the image img
targetSize(img, maxWidth, maxHeight) ==
    LET widthRatio == Rat(maxWidth, img.width)
        heightRatio == Rat(maxHeight, img.height)
        ratio == IF RLeq(widthRatio, heightRatio) THEN widthRatio ELSE heightRatio
        over == img.width > maxWidth \/ img.height > maxHeight
        targetWidth ==
            IF over THEN MathRound(RMul(RInt(img.width), ratio)) ELSE img.width
        targetHeight ==
            IF over THEN MathRound(RMul(RInt(img.height), ratio)) ELSE img.height
    IN  [x |-> Max(targetWidth, 50), y |-> Max(targetHeight, 50)]

\* decoded images: width and height, px
ImageWidths == {30, 50, 1000, 2000, 3000}
ImageHeights == {1, 20, 50, 500, 1000}

\* the maxWidth and maxHeight options: the default and the scenario's
SizeLimits == {1240, 1000}

InitImage ==
    /\ InitState(MaskEditorDefaults.minScale, MaskEditorDefaults.maxScale, 0,
                 FALSE, MaskEditorDefaults.constrainPan)
    /\ probe \in [img : [width : ImageWidths, height : ImageHeights],
                  maxWidth : SizeLimits, maxHeight : SizeLimits, size : {None}]

\* the image has been decoded: prepareAndApplyImage(img)
prepareAndApplyImage ==
    /\ probe.size = None
    /\ probe' = [probe EXCEPT
                   !.size = targetSize(probe.img, probe.maxWidth, probe.maxHeight)]
    /\ UNCHANGED <<paintVars, histVars, zoomVars, envVars, obsVars, nextId,
                   saved, script>>

NextImage == prepareAndApplyImage

SpecImage == InitImage /\ [][NextImage]_vars

(* C20: for a decoded image of w x h and the limits maxWidth, maxHeight the
   surface is w x h if w <= maxWidth and h <= maxHeight, and otherwise
   (round(w r), round(h r)) with r = min(maxWidth / w, maxHeight / h);
   2000 x 1000 with both limits 1000 gives 1000 x 500. *)
C20_ImageFit ==
    probe.size # None =>
        LET w == probe.img.width
            h == probe.img.height
            rw == Rat(probe.maxWidth, w)
            rh == Rat(probe.maxHeight, h)
            r  == IF RLeq(rw, rh) THEN rw ELSE rh
        IN  /\ (w <= probe.maxWidth /\ h <= probe.maxHeight)
                 => probe.size = [x |-> w, y |-> h]
            /\ ~(w <= probe.maxWidth /\ h <= probe.maxHeight)
                 => probe.size = [x |-> MathRound(RMul(RInt(w), r)),
                                  y |-> MathRound(RMul(RInt(h), r))]
            /\ (w = 2000 /\ h = 1000 /\ probe.maxWidth = 1000
                  /\ probe.maxHeight = 1000)
                 => probe.size = [x |-> 1000, y |-> 500]

----
(* The initialMask option.  The variable probe holds the option and what has
   been done with it: [initialMask, applied, renders, changes, calls]. *)

\* how many times the component is rendered with an initialMask
MaxRenders == 3

\* no initialMask is supplied
NoInitialMask == "undefined"

\* encoded snapshots handed in as initialMask
InitialMasks == {"maskA", "maskB"}

\* the pixels an encoded snapshot decodes to on a surface of size sz
decodeMask(v, sz) ==
    [p \in Pixels(sz) |-> IF v = "maskA" THEN maskColor ELSE White]

\* an initialMask is supplied that is not the one applied last
initialMaskDue_always(p) == p.initialMask # NoInitialMask

initialMaskDue(p) == p.initialMask # NoInitialMask /\ p.initialMask # p.applied

\* the component is rendered with initialMask = v
render(v) ==
    /\ probe.renders < MaxRenders
    /\ probe' = [probe EXCEPT
                   !.initialMask = v,
                   !.renders = probe.renders + 1,
                   !.changes = IF v # probe.initialMask THEN probe.changes + 1
                               ELSE probe.changes]
    /\ UNCHANGED <<paintVars, histVars, zoomVars, envVars, obsVars, nextId,
                   saved, script>>

\* the supplied snapshot has been decoded: it is painted on the mask surface,
\* pushed to the history and reported
applyInitialMask ==
    /\ initialMaskDue(probe)
    /\ Area(size) > 0
    /\ mask' = decodeMask(probe.initialMask, size)
    /\ LET r == saveToHistory(historyIndex, history, historyIndex, mask', size, now)
       IN /\ history' = r.history
          /\ historyIndex' = r.historyIndex
    /\ now' = now + 1
    /\ lastPayload' = onMaskChangeNow(lastPayload, mask')
    /\ probe' = [probe EXCEPT !.applied = probe.initialMask,
                              !.calls = probe.calls + 1]
    /\ UNCHANGED <<size, isDrawing, zoomVars, buttons, timers, debounce, owed,
                   debouncedInStroke, stray, clearedAt, ups, upLimit, nextId,
                   saved, script>>

InitInitialMask ==
    /\ InitState(MaskEditorDefaults.minScale, MaskEditorDefaults.maxScale, 0,
                 TRUE, MaskEditorDefaults.constrainPan)
    /\ probe = [initialMask |-> NoInitialMask, applied |-> NoInitialMask,
                renders |-> 0,
                changes |-> 0, calls |-> 0]

NextInitialMask ==
    \/ ImageLoaded
    \/ \E v \in InitialMasks : render(v)
    \/ applyInitialMask
    \/ undo
    \/ redo
    \/ clear

SpecInitialMask == InitInitialMask /\ [][NextInitialMask]_vars

(* C21: an initialMask value is applied once per distinct value: applying it
   pushes one new history entry and makes one immediate onMaskChange call;
   a render with the same value applies nothing and notifies nobody; a
   different value is applied again. *)
C21_InitialMaskOnce ==
    [][ /\ applyInitialMask =>
              /\ mask' = decodeMask(probe.initialMask, size)
              /\ historyIndex' = historyIndex + 1
              /\ Len(history') = historyIndex + 2
              /\ history'[Len(history')].imageData = mask'
              /\ lastPayload' = toMask(mask')
              /\ probe'.calls = probe.calls + 1
        /\ \A v \in InitialMasks :
              render(v) =>
                  /\ UNCHANGED <<mask, history, historyIndex, lastPayload>>
                  /\ probe'.calls = probe.calls
                  /\ initialMaskDue(probe') <=> v # probe.applied
        /\ probe'.calls <= probe'.changes ]_vars

\* maskA applied, rendered again with maskA, then maskB applied
C21_Witness ==
    /\ probe.renders = 3
    /\ probe.changes = 2
    /\ probe.calls = 2
    /\ probe.applied = "maskB"
    /\ Len(history) = 2
    /\ historyIndex = 1

----
(* The editor before its surface has a size: the handlers the hook returns
   can be called while size is still { 0, 0 }. *)

\* handleMouseUp called while the canvases are unsized
handleMouseUpCall ==
    /\ Area(size) = 0
    /\ Len(timers) < MaxTimers
    /\ isDrawing' = FALSE
    /\ timers' = Append(timers, mouseUpTimer)
    /\ owed' = IF onMaskChange THEN owed + 1 ELSE owed
    /\ debounce' = maskChangeEffect(isDrawing, isDrawing', debounce, mask)
    /\ UNCHANGED <<size, mask, histVars, zoomVars, buttons, now, lastPayload,
                   debouncedInStroke, stray, clearedAt, ups, upLimit, drvVars>>

InitUnsized ==
    InitWith(MaskEditorDefaults.minScale, MaskEditorDefaults.maxScale,
             MaxUpsMode, TRUE)

NextUnsized == handleMouseUpCall \/ Next

SpecUnsized == InitUnsized /\ [][NextUnsized]_vars

(* C22: while the surface has zero area, saveToHistory(), undo(), redo() and
   clear() leave the log entries and the cursor unchanged. *)
C22_UnsizedNoOp ==
    [][ /\ (Area(size) = 0 /\ (undo \/ redo \/ clear))
              => UNCHANGED <<history, historyIndex>>
        /\ (RunMouseUpTimer /\ Area(Head(timers).size) = 0)
              => UNCHANGED <<history, historyIndex>> ]_vars

\* operations have run on the unsized surface and reported the empty mask
C22_Witness ==
    /\ Area(size) = 0
    /\ timers = <<>>
    /\ lastPayload # None
    /\ history = <<>>
    /\ historyIndex = -1

----
(* The history engine when reading the mask pixels fails. *)

\* a stroke is painted and saveToHistory() is called, but getImageData throws
H_StrokeFails ==
    /\ nextId <= MaxStrokes
    /\ mask' = StrokeContent(nextId)
    /\ LET r == saveToHistoryThrows(history, historyIndex, size)
       IN /\ history' = r.history
          /\ historyIndex' = r.historyIndex
    /\ nextId' = nextId + 1
    /\ script' = OffScript
    /\ UNCHANGED <<now, saved, driverFrame>>

NextThrows == H_Stroke \/ H_StrokeFails \/ H_Undo \/ H_Redo \/ H_Clear

SpecThrows == InitDriver /\ [][NextThrows]_vars

(* C23: if reading the mask pixels fails during saveToHistory(), the error is
   caught and the log entries and the cursor are exactly as before the call:
   no partial entry is appended. *)
C23_FailedSaveNoChange ==
    [][ H_StrokeFails => UNCHANGED <<history, historyIndex>> ]_vars

\* one stroke saved, then a second one whose snapshot could not be read
C23_Witness ==
    /\ nextId = 3
    /\ Len(saved) = 1
    /\ mask = StrokeContent(2)
    /\ Len(history) = 1
    /\ historyIndex = 0
    /\ history[1].imageData = StrokeContent(1)

----
(* The source image.  The variable probe holds the src option, the loads
   that are under way and what the image canvas shows:
   [src, decoding, drawing, baseImage]. *)

\* the sources the editor is given
Sources == {"srcA", "srcB", "srcC"}

\* the surface size for the decoded image of a source
SourceSize(s) ==
    IF s = "srcA" THEN [x |-> 1, y |-> 1]
    ELSE IF s = "srcB" THEN [x |-> 2, y |-> 1]
    ELSE [x |-> 1, y |-> 2]

\* nothing has been drawn on the image canvas
NoImage == "blank"

\* the src option changes: the effect starts loadImage() for it
loadImage(s) ==
    /\ s # probe.src
    /\ probe' = [probe EXCEPT !.src = s, !.decoding = @ \cup {s}]
    /\ UNCHANGED <<paintVars, histVars, zoomVars, envVars, obsVars, nextId,
                   saved, script>>

\* the timer of img.onload for the source s: prepareAndApplyImage(img)
imageOnload(s) ==
    /\ s \in probe.decoding
    /\ size' = SourceSize(s)
    /\ mask' = clearRect(size')
    /\ transform' = [scale |-> 10, translateX |-> 0, translateY |-> 0]
    /\ stray' = (stray \/ lastPayload # None)
    /\ probe' = [probe EXCEPT !.decoding = @ \ {s}, !.drawing = @ \cup {s}]
    /\ UNCHANGED <<isDrawing, histVars, scale, isPanning, isSpaceKeyDown,
                   isZoomKeyDown, lastMousePosition, panningActive, minScale,
                   maxScale, onMaskChange, constrainPan, envVars, lastPayload,
                   owed, debouncedInStroke, clearedAt, ups, upLimit, nextId,
                   saved, script>>

\* the timer prepareAndApplyImage sets for the source s: drawImage(img, ...)
attemptDraw(s) ==
    /\ s \in probe.drawing
    /\ probe' = [probe EXCEPT !.drawing = @ \ {s}, !.baseImage = s]
    /\ UNCHANGED <<paintVars, histVars, zoomVars, envVars, obsVars, nextId,
                   saved, script>>

InitSource ==
    /\ InitState(MaskEditorDefaults.minScale, MaskEditorDefaults.maxScale, 0,
                 FALSE, MaskEditorDefaults.constrainPan)
    /\ \E s \in Sources :
          probe = [src |-> s, decoding |-> {s}, drawing |-> {},
                   baseImage |-> NoImage]

NextSource ==
    \/ \E s \in Sources : loadImage(s)
    \/ \E s \in Sources : imageOnload(s)
    \/ \E s \in Sources : attemptDraw(s)

SpecSource == InitSource /\ [][NextSource]_vars

(* C24: if the source changes from A to B while A's decode is in flight,
   then in whatever order the two decodes complete, once both have completed
   the surface dimensions and the base image are those of B. *)
C24_LatestSourceWins ==
    (probe.decoding = {} /\ probe.drawing = {}) =>
        /\ size = SourceSize(probe.src)
        /\ probe.baseImage = probe.src

----
(* Painting, the history and the viewport together: strokes, undo, redo and
   clear next to the zoom and pan calls, the container's resize and the
   modifier-wheel zoom (on the exact viewport kept in probe). *)

InitFrame ==
    InitEditor(10, 12, MaxUpsMode, FALSE, MaskEditorDefaults.constrainPan)

\* the calls and events that belong to the viewport
ViewportOp ==
    \/ zoomIn
    \/ zoomOut
    \/ RunZoomTimer
    \/ resetZoom
    \/ SetPanCall(8, -8)
    \/ containerResized
    \/ recalculateBaseScaleAndCenter([x |-> RInt(8), y |-> RInt(4)])
    \/ handleWheel(TRUE, -20, RInt(3), RInt(1))

\* the calls that belong to the history engine
HistoryOp ==
    \/ RunMouseUpTimer
    \/ undo
    \/ redo
    \/ clear

NextFrame ==
    \/ ImageLoaded
    \/ \E p \in Pixels(size) : MouseDownCanvas(Left, p, FALSE, 0)
    \/ MouseUpCanvas(Left)
    \/ ViewportOp
    \/ HistoryOp

SpecFrame == InitFrame /\ [][NextFrame]_vars

(* C25: zoomIn, zoomOut, resetZoom, setPan, the modifier-wheel zoom and the
   container-resize recomputation leave the mask pixels and the history log
   (entries and cursor) unchanged; saveToHistory, undo, redo and clear leave
   scale, baseScale and the translate unchanged. *)
C25_PaintViewportIndependent ==
    [][ /\ ViewportOp => UNCHANGED <<mask, history, historyIndex>>
        /\ HistoryOp => UNCHANGED <<scale, transform, probe>> ]_vars

\* a stroke is in the log, then the view was zoomed, panned and wheel-zoomed
C25_Witness ==
    /\ Len(history) = 1
    /\ mask = history[1].imageData
    /\ mask # clearRect(size)
    /\ scale = 12
    /\ transform.scale = 12
    /\ transform.translateX # 0
    /\ probe # None
    /\ probe.wheels > 0

----
(* Pointer-up and the mode *)

(* C26: the deferred task of a pointer-up commits a history entry and
   notifies only if the mode was Drawing when the pointer-up arrived: the
   task of a pointer-up that arrived while Idle, or at the end of a Panning
   gesture over the canvas, leaves the history entries and the cursor
   unchanged and delivers no notification. *)
C26_CommitOnlyFromDrawing ==
    [][ (RunMouseUpTimer /\ ~Head(timers).wasDrawing)
            => (UNCHANGED <<history, historyIndex>> /\ lastPayload' = lastPayload) ]_vars

(* C27: a window blur or a pointer-leave returns the mode to Idle: after
   either event isDrawing and isPanning are both false, whatever the mode
   was. *)
C27_BlurLeaveToIdle ==
    [][ (handleBlur \/ handleMouseLeave) => (~isDrawing' /\ ~isPanning') ]_vars

(* C28: a pointer-move changes the pixels of the mask surface only when a
   button is held and the mode is Drawing; with no button held, or with a
   button held while the mode is Idle, the mask is left as it was. *)
C28_MovePaintsOnlyDrawing ==
    [][ (PointerMove /\ mask' # mask) => (buttons # {} /\ isDrawing) ]_vars

\* a pointer-down over the canvas that asks for a pan: the middle button, or
\* the left button while space is held
PanGestureDown ==
    \/ \E p \in Pixels(size), k \in BOOLEAN, cx \in ClientXs :
          MouseDownCanvas(Middle, p, k, cx)
    \/ isSpaceKeyDown /\ LeftDownOnCanvas

\* a pointer-up, over the canvas or outside it
PointerUp == \E b \in Buttons : MouseUpCanvas(b) \/ MouseUpOutside(b)

(* C29: Panning is entered from Idle by a middle-button pointer-down and by
   a left-button pointer-down while space is held, and by no other event;
   with no deferred task pending, space-held becomes true only while
   scale > 1; a pointer-up, a pointer-leave or a window blur received while
   Panning ends the panning. *)
C29_PanningTransitions ==
    [][ /\ (PanGestureDown /\ ~isDrawing /\ ~isPanning) => isPanning'
        /\ (~isPanning /\ isPanning') => PanGestureDown
        /\ (~isSpaceKeyDown /\ isSpaceKeyDown' /\ timers = <<>>) => scale > 10
        /\ ((PointerUp \/ handleMouseLeave \/ handleBlur) /\ isPanning)
               => ~isPanning' ]_vars

----
(* The wheel channel: the wheel listener of the cursor canvas (brush size)
   and the wheel listener of the container (zoom), on the exact viewport
   extended with the brush size and with whether the caller supplied
   onCursorSizeChange. *)

\* deltaY of one wheel notch, away from the user and towards the user
ScrollDeltas == {-100, 100}

\* the cursorSize props the editor is mounted with
InitialCursorSizes == {1, 2}

newCursorSize_unclamped(cursorSize, deltaY) ==
    cursorSize + (IF deltaY > 0 THEN -1 ELSE 1)

\* Math.max(1, currentCursorSize + (evt.deltaY > 0 ? -1 : 1))
newCursorSize(cursorSize, deltaY) ==
    Max(1, cursorSize + (IF deltaY > 0 THEN -1 ELSE 1))

\* a wheel event over the cursor canvas without ctrl/cmd: scrollListener, if
\* the effect attached it; handleWheel of the container returns at once
scrollListener(ctrlKey, deltaY) ==
    /\ probe # None
    /\ probe.wheels < MaxWheels
    /\ ~ctrlKey
    /\ probe' = [probe EXCEPT
                    !.cursorSize = IF probe.onCursorSizeChange
                                   THEN newCursorSize(@, deltaY) ELSE @,
                    !.wheels = @ + 1]
    /\ UNCHANGED <<paintVars, histVars, zoomVars, envVars, obsVars, nextId,
                   saved, script>>

InitWheel ==
    /\ InitState(8, 14, 0, FALSE, MaskEditorDefaults.constrainPan)
    /\ \E cursorSize \in InitialCursorSizes, listening \in BOOLEAN :
          probe = [contentSize |-> [x |-> RInt(8), y |-> RInt(4)],
                   baseScale |-> calculateBaseScale([x |-> RInt(8), y |-> RInt(4)],
                                                    containerRect),
                   scale |-> Rat(scale, 10),
                   transform |-> [scale |-> RInt(1), translateX |-> RInt(0),
                                  translateY |-> RInt(0)],
                   wheels |-> 0,
                   cursorSize |-> cursorSize,
                   onCursorSizeChange |-> listening]

NextWheel ==
    \/ \E k \in BOOLEAN, deltaY \in ScrollDeltas : scrollListener(k, deltaY)
    \/ \E k \in BOOLEAN, deltaY \in WheelDeltas, c \in ClientPoints :
          handleWheel(k, deltaY, c.x, c.y)

SpecWheel == InitWheel /\ [][NextWheel]_vars

\* a wheel event with ctrl/cmd held
WheelWithModifier ==
    \E deltaY \in WheelDeltas, c \in ClientPoints : handleWheel(TRUE, deltaY, c.x, c.y)

(* C30 as stated: a wheel event without ctrl/cmd changes the brush radius by
   exactly 1, down for one wheel direction and up for the other, and leaves
   scale and translate unchanged; a wheel event with ctrl/cmd leaves the
   brush radius unchanged. *)
C30_WheelArbitration ==
    [][ /\ \A deltaY \in ScrollDeltas :
              scrollListener(FALSE, deltaY)
                 => /\ probe'.cursorSize
                         = probe.cursorSize + (IF deltaY > 0 THEN -1 ELSE 1)
                    /\ probe'.scale = probe.scale
                    /\ probe'.transform = probe.transform
        /\ WheelWithModifier => probe'.cursorSize = probe.cursorSize ]_vars

(* C30, amended: a wheel event without ctrl/cmd, when the caller supplied
   onCursorSizeChange, sets the brush radius to max(1, radius - 1) for
   deltaY > 0 and to radius + 1 otherwise, and without onCursorSizeChange
   leaves it as it is; in both cases scale, translate and baseScale are
   unchanged. A wheel event with ctrl/cmd leaves the brush radius
   unchanged. *)
C30_WheelArbitrationClamped ==
    [][ /\ \A deltaY \in ScrollDeltas :
              scrollListener(FALSE, deltaY)
                 => /\ probe'.cursorSize
                         = IF ~probe.onCursorSizeChange THEN probe.cursorSize
                           ELSE IF deltaY > 0 THEN Max(1, probe.cursorSize - 1)
                           ELSE probe.cursorSize + 1
                    /\ probe'.scale = probe.scale
                    /\ probe'.transform = probe.transform
                    /\ probe'.baseScale = probe.baseScale
        /\ WheelWithModifier => probe'.cursorSize = probe.cursorSize ]_vars

\* a wheel event without ctrl/cmd has taken the radius from 2 to 3 and a
\* wheel event with ctrl/cmd has zoomed
C30_Witness ==
    /\ probe # None
    /\ probe.onCursorSizeChange
    /\ probe.cursorSize = 3
    /\ probe.wheels = 2
    /\ probe.scale # RInt(1)

----
(* The brush radius: the cursorSize prop, the effect that copies it into
   currentCursorSize, and the wheel listener. *)

\* the cursorSize props the caller passes: out-of-range values, a small one
\* and the default
ConfiguredCursorSizes == {-1, 0, 2, 10}

\* the effect of [initialCursorSize]: setCursorSize(initialCursorSize), run
\* when the caller passes another cursorSize
cursorSizeSync(initialCursorSize) ==
    /\ probe # None
    /\ initialCursorSize # probe.initialCursorSize
    /\ probe' = [probe EXCEPT !.initialCursorSize = initialCursorSize,
                              !.cursorSize = initialCursorSize]
    /\ UNCHANGED <<paintVars, histVars, zoomVars, envVars, obsVars, nextId,
                   saved, script>>

\* setCursorSize(n) of the hook's return value, called by the component
setCursorSize(n) ==
    /\ probe # None
    /\ n # probe.cursorSize
    /\ probe' = [probe EXCEPT !.cursorSize = n]
    /\ UNCHANGED <<paintVars, histVars, zoomVars, envVars, obsVars, nextId,
                   saved, script>>

\* React.useState(initialCursorSize)
InitBrush ==
    /\ InitState(8, 14, 0, FALSE, MaskEditorDefaults.constrainPan)
    /\ \E initialCursorSize \in ConfiguredCursorSizes, listening \in BOOLEAN :
          probe = [initialCursorSize |-> initialCursorSize,
                   cursorSize |-> initialCursorSize,
                   onCursorSizeChange |-> listening,
                   wheels |-> 0]

NextBrush ==
    \/ \E k \in BOOLEAN, deltaY \in ScrollDeltas : scrollListener(k, deltaY)
    \/ \E c \in ConfiguredCursorSizes : cursorSizeSync(c)
    \/ \E n \in ConfiguredCursorSizes : setCursorSize(n)

SpecBrush == InitBrush /\ [][NextBrush]_vars

(* C31: the brush radius is at least 1 in every reachable state, whatever
   cursorSize is configured and whatever wheel events and cursorSize changes
   arrive. *)
C31_RadiusAtLeastOne == probe.cursorSize >= 1

----
(* The notifications of the viewport: onScaleChange and onPanChange, both
   supplied, on the exact viewport extended with the timers the operations
   start and the number of callback invocations so far. *)

MaxCalls == 3           \* operations of the viewport in one run

\* a timer that sets no transform.scale
NoScale == RInt(0)

\* the operations: the control surface, a ctrl+wheel notch, a container resize
ViewportCalls ==
    {<<"zoomIn", 0>>, <<"zoomOut", 0>>, <<"resetZoom", 0>>, <<"setPan", 8>>,
     <<"setPan", -1>>, <<"wheel", -20>>, <<"wheel", 20>>, <<"resize", 0>>}

\* setPan(x, 0) on the viewport v: the clamp to 75% of the content, and a
\* timer with onPanChange if the translation changes
setPanNotifying(v, x) ==
    LET maxPanX == RMul(v.contentSize.x, Rat(3, 4))
        capped == IF RLeq(x, maxPanX) THEN x ELSE maxPanX
        constrainedX == IF ~constrainPan THEN x
                        ELSE IF RLeq(capped, RNeg(maxPanX)) THEN RNeg(maxPanX)
                        ELSE capped
        newTransform == [v.transform EXCEPT !.translateX = constrainedX,
                                            !.translateY = RInt(0)]
    IN  IF newTransform # v.transform
        THEN [v EXCEPT !.transform = newTransform,
                       !.timers = Append(@, [scale |-> NoScale,
                                             callbacks |-> <<"onPanChange">>])]
        ELSE v

\* the effect "if (transform.scale <= 1) setPan(0, 0)" of the next render
resetPanNotifying(v) ==
    IF RLeq(v.transform.scale, RInt(1)) THEN setPanNotifying(v, RInt(0)) ELSE v

\* zoomIn / zoomOut to newScale: the scale now, transform.scale and
\* onScaleChange in a timer
zoomNotifying(v, newScale) ==
    IF newScale # v.scale
    THEN [v EXCEPT !.scale = newScale,
                   !.timers = Append(@, [scale |-> newScale,
                                         callbacks |-> <<"onScaleChange">>])]
    ELSE v

\* one operation of the viewport: the state it leaves, the timers it starts
\* and the callbacks it invokes before it returns
viewportCall(v, call) ==
    LET op == call[1]
        lo == Rat(minScale, 10)
        hi == Rat(maxScale, 10)
        up == RAdd(v.scale, Rat(1, 5))
        down == RSub(v.scale, Rat(1, 5))
        sum == RAdd(v.scale, RMul(RInt(-call[2]), Rat(1, 100)))
        capped == IF RLeq(hi, sum) THEN hi ELSE sum
        wheelScale == IF RLeq(capped, lo) THEN lo ELSE capped
    IN  CASE op = "zoomIn" ->
               zoomNotifying(v, IF RLeq(hi, up) THEN hi ELSE up)
          [] op = "zoomOut" ->
               zoomNotifying(v, IF RLeq(down, lo) THEN lo ELSE down)
          [] op = "resetZoom" ->
               [v EXCEPT !.scale = RInt(1),
                         !.transform = [scale |-> RInt(1), translateX |-> RInt(0),
                                        translateY |-> RInt(0)],
                         !.timers = Append(@, [scale |-> NoScale,
                                               callbacks |-> <<"onScaleChange",
                                                               "onPanChange">>])]
          [] op = "setPan" -> setPanNotifying(v, RInt(call[2]))
          [] op = "wheel" ->
               IF wheelScale # v.scale
               THEN [zoomToPoint(v, wheelScale, RInt(3), RInt(1))
                        EXCEPT !.invoked = @ + 2]
               ELSE v
          [] op = "resize" ->
               [v EXCEPT !.baseScale = calculateBaseScale(v.contentSize, containerRect),
                         !.transform = [scale |-> RInt(1), translateX |-> RInt(0),
                                        translateY |-> RInt(0)],
                         !.timers = @ \o <<[scale |-> NoScale,
                                            callbacks |-> <<"onScaleChange">>],
                                           [scale |-> NoScale,
                                            callbacks |-> <<"onPanChange">>]>>]

\* an operation of the viewport is called, and the render that follows
N_Call(call) ==
    /\ probe # None
    /\ probe.calls < MaxCalls
    /\ probe' = [resetPanNotifying(viewportCall(probe, call))
                    EXCEPT !.calls = @ + 1]
    /\ UNCHANGED <<paintVars, histVars, zoomVars, envVars, obsVars, nextId,
                   saved, script>>

\* the oldest timer of the viewport runs, and the render that follows
N_RunTimer ==
    /\ probe # None
    /\ probe.timers # <<>>
    /\ LET t == Head(probe.timers)
           v == [probe EXCEPT
                    !.timers = Tail(@),
                    !.transform.scale = IF t.scale = NoScale THEN @ ELSE t.scale,
                    !.invoked = @ + Len(t.callbacks)]
       IN  probe' = resetPanNotifying(v)
    /\ UNCHANGED <<paintVars, histVars, zoomVars, envVars, obsVars, nextId,
                   saved, script>>

InitNotify ==
    /\ InitState(8, 14, 0, FALSE, MaskEditorDefaults.constrainPan)
    /\ probe = [contentSize |-> [x |-> RInt(8), y |-> RInt(4)],
                baseScale |-> calculateBaseScale([x |-> RInt(8), y |-> RInt(4)],
                                                 containerRect),
                scale |-> Rat(scale, 10),
                transform |-> [scale |-> RInt(1), translateX |-> RInt(0),
                               translateY |-> RInt(0)],
                timers |-> <<>>,
                invoked |-> 0,
                calls |-> 0]

NextNotify ==
    \/ \E call \in ViewportCalls : N_Call(call)
    \/ N_RunTimer

SpecNotify == InitNotify /\ [][NextNotify]_vars

(* C32: no onScaleChange or onPanChange is invoked inside the operation that
   causes it: zoomIn, zoomOut, resetZoom, setPan, a ctrl+wheel zoom and the
   resize recomputation return without having invoked a callback; every
   invocation is made by a deferred task. *)
C32_NotificationsDeferred ==
    [][ (\E call \in ViewportCalls : N_Call(call))
            => probe'.invoked = probe.invoked ]_vars

----
(* The fit of the content into the container: the ResizeObserver, the layout
   effect of contentSize and recalculateBaseScaleAndCenter, with the
   container's size as state. *)

\* clientWidth x clientHeight of the container without padding, px; a
\* collapsed or hidden container has 0
ContainerSizes ==
    {[width |-> RInt(w), height |-> RInt(h)] : w \in {0, 4, 16}, h \in {0, 4}}

\* the contentSize prop, px; { 0, 0 } before an image has loaded
FitContentSizes ==
    {[x |-> RInt(0), y |-> RInt(0)], [x |-> RInt(2), y |-> RInt(2)],
     [x |-> RInt(8), y |-> RInt(4)], [x |-> RInt(12), y |-> RInt(4)],
     [x |-> RInt(16), y |-> RInt(4)]}

MaxRecalculations == 3  \* recalculations in one run

\* Math.abs(a - b) > 5 on whole numbers of px
MoreThanFiveApart(a, b) == Abs(a[1] - b[1]) > 5

\* recalculateBaseScaleAndCenter() on the viewport v
recalculated(v) ==
    IF v.contentSize.x = RInt(0) \/ v.contentSize.y = RInt(0) THEN v
    ELSE [v EXCEPT !.lastContentSize = v.contentSize,
                   !.baseScale = calculateBaseScale(v.contentSize, v.container),
                   !.transform = [scale |-> RInt(1), translateX |-> RInt(0),
                                  translateY |-> RInt(0)],
                   !.isInitialRender = FALSE,
                   !.recalculations = @ + 1]

\* the ResizeObserver callback: the container has another size
F_ContainerResize(container) ==
    /\ probe # None
    /\ probe.recalculations < MaxRecalculations
    /\ container # probe.container
    /\ probe' = recalculated([probe EXCEPT !.container = container,
                                           !.isInitialRender =
                                               IF probe.contentSize.x # RInt(0)
                                                  /\ probe.contentSize.y # RInt(0)
                                               THEN TRUE ELSE @])
    /\ UNCHANGED <<paintVars, histVars, zoomVars, envVars, obsVars, nextId,
                   saved, script>>

\* the layout effect of [contentSize]: another content size is passed
F_ContentSize(contentSize) ==
    /\ probe # None
    /\ probe.recalculations < MaxRecalculations
    /\ contentSize # probe.contentSize
    /\ LET v == [probe EXCEPT !.contentSize = contentSize]
       IN  probe' =
             IF v.isInitialRender
                \/ MoreThanFiveApart(v.lastContentSize.x, contentSize.x)
                \/ MoreThanFiveApart(v.lastContentSize.y, contentSize.y)
             THEN recalculated(v) ELSE v
    /\ UNCHANGED <<paintVars, histVars, zoomVars, envVars, obsVars, nextId,
                   saved, script>>

\* setPan(x, 0) through the control surface; its notification is not followed
F_setPan(x) ==
    /\ probe # None
    /\ probe.recalculations < MaxRecalculations
    /\ probe' = [setPanNotifying(probe, RInt(x)) EXCEPT !.timers = <<>>]
    /\ probe' # probe
    /\ UNCHANGED <<paintVars, histVars, zoomVars, envVars, obsVars, nextId,
                   saved, script>>

InitFit ==
    /\ InitState(8, 14, 0, FALSE, MaskEditorDefaults.constrainPan)
    /\ probe = [container |-> [width |-> RInt(4), height |-> RInt(4)],
                contentSize |-> [x |-> RInt(0), y |-> RInt(0)],
                lastContentSize |-> [x |-> RInt(0), y |-> RInt(0)],
                isInitialRender |-> TRUE,
                baseScale |-> RInt(1),
                scale |-> Rat(scale, 10),
                transform |-> [scale |-> RInt(1), translateX |-> RInt(0),
                               translateY |-> RInt(0)],
                timers |-> <<>>,
                recalculations |-> 0]

NextFit ==
    \/ \E container \in ContainerSizes : F_ContainerResize(container)
    \/ \E contentSize \in FitContentSizes : F_ContentSize(contentSize)
    \/ \E x \in {-1, 1} : F_setPan(x)

SpecFit == InitFit /\ [][NextFit]_vars

\* a step in which recalculateBaseScaleAndCenter has run
Recalculation == probe'.recalculations = probe.recalculations + 1

(* C33: after every recomputation caused by a container resize or by a new
   content size, baseScale = min(1, containerWidth / contentWidth,
   containerHeight / contentHeight), 0 < baseScale <= 1, and translate is
   (0, 0). *)
C33_BaseScaleFit ==
    [][ Recalculation =>
          LET b == probe'.baseScale
              widthRatio == RDiv(probe'.container.width, probe'.contentSize.x)
              heightRatio == RDiv(probe'.container.height, probe'.contentSize.y)
          IN  /\ b \in {RInt(1), widthRatio, heightRatio}
              /\ RLeq(b, RInt(1)) /\ RLeq(b, widthRatio) /\ RLeq(b, heightRatio)
              /\ b[1] > 0
              /\ probe'.transform.translateX = RInt(0)
              /\ probe'.transform.translateY = RInt(0) ]_vars

\* the result of a division by 0 in the code's arithmetic: NaN or an infinity
NotFinite == <<1, 0>>

\* getImageCoordinates(clientX, clientY) of the render with the viewport v,
\* the container at the client origin; x / 0 is not a finite number
imageCoordinates(v, c) ==
    IF RMul(v.transform.scale, v.baseScale) = RInt(0)
    THEN [x |-> NotFinite, y |-> NotFinite]
    ELSE getImageCoordinates(v.transform, v.baseScale, v.contentSize,
                             [left |-> RInt(0), top |-> RInt(0),
                              width |-> v.container.width,
                              height |-> v.container.height],
                             c.x, c.y)

\* the container or the content has no area
ZeroSized(v) ==
    \/ v.container.width = RInt(0) \/ v.container.height = RInt(0)
    \/ v.contentSize.x = RInt(0) \/ v.contentSize.y = RInt(0)

(* C34: while the container size or the content size is zero,
   getImageCoordinates returns (0, 0) for every client point, and the
   combined scale it divides by is not 0. *)
C34_ZeroSizeOrigin ==
    ZeroSized(probe) =>
        /\ RMul(probe.transform.scale, probe.baseScale) # RInt(0)
        /\ \A c \in ClientPoints :
              imageCoordinates(probe, c) = [x |-> RInt(0), y |-> RInt(0)]

----
(* The brush colour: the pixel buffer of the mask canvas in RGBA, stamps, and
   the effect that calls replaceMaskColor(maskColor, false). *)

\* the maskColor props the caller passes; '#ffffff' is the default
Palette == {"#ffffff", "#ff0000", "#00c800", "#000000"}

\* hexToRgb(color): [r, g, b]
hexToRgb(color) ==
    CASE color = "#ffffff" -> <<255, 255, 255>>
      [] color = "#ff0000" -> <<255, 0, 0>>
      [] color = "#00c800" -> <<0, 200, 0>>
      [] color = "#000000" -> <<0, 0, 0>>

\* the pixels of the mask canvas that are followed
BufferPixels == 1 .. 3

\* putImageData then getImageData: the canvas stores premultiplied colour,
\* so a pixel with alpha 0 reads back as transparent black
putImageData(data) ==
    [q \in DOMAIN data |->
        IF data[q].a = 0 THEN [rgb |-> <<0, 0, 0>>, a |-> 0] ELSE data[q]]

\* replaceMaskColor(hexColor, invert) on the buffer of getImageData: the
\* red channel decides, the alpha channel is left alone
replaceMaskColor(data, hexColor, invert) ==
    [q \in DOMAIN data |->
        [data[q] EXCEPT !.rgb = IF (data[q].rgb[1] = 255) # invert
                                THEN <<255, 255, 255>>
                                ELSE hexToRgb(hexColor)]]

\* a stamp of the brush on the pixel q, in maskColor or, erasing, in white
C_Stamp(q, erase) ==
    /\ probe # None
    /\ probe' = [probe EXCEPT
                    !.data[q] = [rgb |-> hexToRgb(IF erase THEN "#ffffff"
                                                  ELSE probe.maskColor),
                                 a |-> 255],
                    !.painted = IF erase THEN @ \ {q} ELSE @ \cup {q}]
    /\ probe' # probe
    /\ UNCHANGED <<paintVars, histVars, zoomVars, envVars, obsVars, nextId,
                   saved, script>>

\* the caller passes another maskColor: the effect of [maskColor, size,
\* replaceMaskColor] runs replaceMaskColor(maskColor, false)
C_MaskColor(hexColor) ==
    /\ probe # None
    /\ hexColor # probe.maskColor
    /\ probe' = [probe EXCEPT
                    !.maskColor = hexColor,
                    !.data = putImageData(replaceMaskColor(@, hexColor, FALSE))]
    /\ UNCHANGED <<paintVars, histVars, zoomVars, envVars, obsVars, nextId,
                   saved, script>>

\* the canvas after the image has given it a size: transparent black, then
\* the effect has run once for the size
InitColour ==
    /\ InitState(8, 14, 0, FALSE, MaskEditorDefaults.constrainPan)
    /\ \E hexColor \in Palette :
          probe = [maskColor |-> hexColor,
                   data |-> putImageData(replaceMaskColor(
                                [q \in BufferPixels |-> [rgb |-> <<0, 0, 0>>, a |-> 0]],
                                hexColor, FALSE)),
                   painted |-> {}]

NextColour ==
    \/ \E q \in BufferPixels, erase \in BOOLEAN : C_Stamp(q, erase)
    \/ \E hexColor \in Palette : C_MaskColor(hexColor)

SpecColour == InitColour /\ [][NextColour]_vars

(* C35: a change of the brush colour recolours exactly the painted pixels:
   each pixel painted with the brush is opaque in the new colour afterwards,
   every other pixel keeps its alpha and, if opaque, its colour; and
   replaceMaskColor(c, false) applied twice leaves the canvas as it is after
   one application, for every colour c. *)
C35_RecolourPainted ==
    [][ /\ \A hexColor \in Palette :
              C_MaskColor(hexColor) =>
                 \A q \in BufferPixels :
                    IF q \in probe.painted
                    THEN probe'.data[q] = [rgb |-> hexToRgb(hexColor), a |-> 255]
                    ELSE /\ probe'.data[q].a = probe.data[q].a
                         /\ probe.data[q].a = 255 => probe'.data[q] = probe.data[q]
        /\ \A hexColor \in Palette :
              LET once == putImageData(replaceMaskColor(probe.data, hexColor, FALSE))
              IN  putImageData(replaceMaskColor(once, hexColor, FALSE)) = once ]_vars

----
(* The two copies of the user zoom *)

(* C36: whenever no deferred task is pending, the user zoom scale equals
   transform.scale, so that the scale used for rendering (baseScale x scale)
   is the scale getImageCoordinates divides by (baseScale x transform.scale). *)
C36_ScaleAgrees == timers = <<>> => scale = transform.scale

----
(* Strokes and their deferred commits, with the mask each pointer-up found
   recorded in its timer. *)

InitStroke ==
    /\ InitState(MaskEditorDefaults.minScale, MaskEditorDefaults.maxScale, MaxUps,
                 FALSE, MaskEditorDefaults.constrainPan)
    /\ probe = [strokesFollowed |-> TRUE]

NextStroke ==
    \/ ImageLoaded
    \/ \E b \in Buttons, p \in Pixels(size), k \in BOOLEAN :
          MouseDownCanvas(b, p, k, 0)
    \/ \E p \in Pixels(size), k \in BOOLEAN : MouseMoveCanvas(p, k, 0)
    \/ \E b \in Buttons : MouseUpCanvas(b)
    \/ RunMouseUpTimer

SpecStroke == InitStroke /\ [][NextStroke]_vars

(* C37: the deferred commit of each completed stroke (a pointer-up that found
   the mode Drawing) adds exactly one history entry, and that entry's
   snapshot is the mask content at the stroke's pointer-up, also when a
   second pointer-up or the next stroke's pointer-down arrives before the
   commit has run. *)
C37_OneEntryPerStroke ==
    [][ (RunMouseUpTimer /\ Head(timers).wasDrawing)
           => /\ Len(history') = Len(history) + 1
              /\ history'[Len(history')].imageData = Head(timers).maskAtUp ]_vars

----
(* The history log across a change of the source image: useHistory driven by
   strokes, undo, redo and prepareAndApplyImage. *)

SurfaceSizes == {[x |-> 1, y |-> 1], [x |-> 2, y |-> 1]}
MaxImages == 3

\* context.putImageData(imageData, 0, 0) on a surface of the size sz: the
\* pixels the snapshot has are written, the others stay
putSnapshot(m, sz, data) ==
    [q \in Pixels(sz) |-> IF q \in DOMAIN data THEN data[q] ELSE m[q]]

\* prepareAndApplyImage: the canvases get the new size, which empties them;
\* history and historyIndex are not touched
I_ImageLoaded(sz) ==
    /\ probe.images < MaxImages
    /\ probe' = [probe EXCEPT !.size = sz, !.mask = clearRect(sz),
                              !.images = @ + 1]
    /\ UNCHANGED <<paintVars, histVars, zoomVars, envVars, obsVars, nextId, saved,
                   script>>

\* a stroke of one stamp and its commit, no other task in between
I_Stroke(p, c) ==
    /\ probe.size.x > 0
    /\ Len(probe.history) < MaxStrokes
    /\ LET m == fillArc(probe.mask, probe.size, p, 1, c)
           r == saveToHistory(probe.historyIndex, probe.history,
                              probe.historyIndex, m, probe.size, 0)
       IN probe' = [probe EXCEPT !.mask = m, !.history = r.history,
                                 !.historyIndex = r.historyIndex]
    /\ UNCHANGED <<paintVars, histVars, zoomVars, envVars, obsVars, nextId, saved,
                   script>>

I_undo ==
    /\ LET r == History_undo(probe.history, probe.historyIndex, probe.mask,
                             probe.size)
       IN probe' = [probe EXCEPT
                      !.mask = putSnapshot(probe.mask, probe.size, r.mask),
                      !.historyIndex = r.historyIndex]
    /\ UNCHANGED <<paintVars, histVars, zoomVars, envVars, obsVars, nextId, saved,
                   script>>

I_redo ==
    /\ LET r == History_redo(probe.history, probe.historyIndex, probe.mask,
                             probe.size)
       IN probe' = [probe EXCEPT
                      !.mask = putSnapshot(probe.mask, probe.size, r.mask),
                      !.historyIndex = r.historyIndex]
    /\ UNCHANGED <<paintVars, histVars, zoomVars, envVars, obsVars, nextId, saved,
                   script>>

InitReload ==
    /\ InitState(MaskEditorDefaults.minScale, MaskEditorDefaults.maxScale, MaxUps,
                 FALSE, MaskEditorDefaults.constrainPan)
    /\ probe = [size |-> [x |-> 0, y |-> 0], mask |-> <<>>, history |-> <<>>,
                historyIndex |-> -1, images |-> 0]

NextReload ==
    \/ \E sz \in SurfaceSizes : I_ImageLoaded(sz)
    \/ \E p \in Pixels(probe.size), c \in {maskColor, White} : I_Stroke(p, c)
    \/ I_undo
    \/ I_redo

SpecReload == InitReload /\ [][NextReload]_vars

(* C38: after the source image has changed and the surface was resized, no
   undo or redo writes a snapshot captured for the previous image into the
   mask: the entry an undo or redo restores has the dimensions of the
   current surface. *)
C38_LogOfCurrentImage ==
    [][ ((I_undo \/ I_redo) /\ probe'.historyIndex # probe.historyIndex
                            /\ probe'.historyIndex >= 0)
           => DOMAIN probe.history[probe'.historyIndex + 1].imageData
                 = Pixels(probe.size) ]_vars

----
(* C39: whenever the mode is not Panning (between tasks), the
   'panning-active' class is absent from the document body, however the pan
   ended: pointer-up, pointer-leave, window blur, release of the space key
   or scale dropping to 1 or less. *)
C39_CueOnlyWhilePanning == ~isPanning => ~panningActive

----
(* The observer and the changes of the mask that no stroke makes: the pixel
   buffer of the mask canvas, the brush colour and the last payload handed
   to onMaskChange. *)

\* a stroke of one stamp on the pixel q; its pointer-up calls
\* onMaskChange(toMask(canvas))
O_Stroke(q, erase) ==
    /\ LET data == [probe.data EXCEPT
                       ![q] = [rgb |-> hexToRgb(IF erase THEN "#ffffff"
                                                ELSE probe.maskColor),
                               a |-> 255]]
       IN probe' = [probe EXCEPT !.data = data, !.lastPayload = toMask(data)]
    /\ UNCHANGED <<paintVars, histVars, zoomVars, envVars, obsVars, nextId, saved,
                   script>>

\* the caller passes another maskColor: the effect runs
\* replaceMaskColor(maskColor, false); onMaskChange is not called
O_MaskColor(hexColor) ==
    /\ hexColor # probe.maskColor
    /\ probe' = [probe EXCEPT
                    !.maskColor = hexColor,
                    !.data = putImageData(replaceMaskColor(@, hexColor, FALSE))]
    /\ UNCHANGED <<paintVars, histVars, zoomVars, envVars, obsVars, nextId, saved,
                   script>>

\* prepareAndApplyImage for another source: setting the canvas dimensions
\* empties the mask, then the effect of [maskColor, size, replaceMaskColor]
\* runs; onMaskChange is not called
O_ImageLoaded ==
    /\ probe.images < MaxImages
    /\ probe' = [probe EXCEPT
                    !.data = putImageData(replaceMaskColor(
                                 [q \in BufferPixels |-> [rgb |-> <<0, 0, 0>>, a |-> 0]],
                                 probe.maskColor, FALSE)),
                    !.images = @ + 1]
    /\ UNCHANGED <<paintVars, histVars, zoomVars, envVars, obsVars, nextId, saved,
                   script>>

InitObserved ==
    /\ InitState(MaskEditorDefaults.minScale, MaskEditorDefaults.maxScale, 0,
                 TRUE, MaskEditorDefaults.constrainPan)
    /\ \E hexColor \in Palette :
          probe = [maskColor |-> hexColor,
                   data |-> [q \in BufferPixels |-> [rgb |-> <<0, 0, 0>>, a |-> 0]],
                   lastPayload |-> None,
                   images |-> 1]

NextObserved ==
    \/ \E q \in BufferPixels, erase \in BOOLEAN : O_Stroke(q, erase)
    \/ \E hexColor \in Palette : O_MaskColor(hexColor)
    \/ O_ImageLoaded

SpecObserved == InitObserved /\ [][NextObserved]_vars

(* C40: a change of the mask content that is not a stroke, undo, redo or
   clear - the recolouring when the brush colour changes and the reset when
   the source image changes - is followed by a notification: whenever no
   task is pending, the last payload handed to onMaskChange is the current
   mask content. *)
C40_ObserverFollowsRecolourAndReset ==
    IF probe.lastPayload = None
    THEN \A q \in BufferPixels : probe.data[q].a = 0
    ELSE probe.lastPayload = toMask(probe.data)

====
